---- MODULE Spec2Model ----
(***************************************************************************)
(* A model of the arbitrage pipeline of cli_monitor: cycle enumeration     *)
(* (cycle_finder.py), cycle structuring (common/utils.py), the profit      *)
(* function (cycle.py), the streaming evaluator (profit_calculator.py) and *)
(* the consumer loop of the bot (bot.py).                                  *)
(***************************************************************************)
EXTENDS Integers, Sequences, FiniteSets, TLC

VARIABLES
    \* ---- CycleFinder._find_cycles_dfs -----------------------------------
    graph,          \* adjacency map: asset -> list of neighbours
    start_node,     \* the DFS root
    max_length,     \* maximal number of assets of a path
    stack,          \* the DFS stack of (vertex, path)
    cycles,         \* the list of cycles found so far
    dfs_iters,      \* number of iterations of the while loop so far
    finder_pc,      \* "idle" | "dfs" | "done" | "saved" | "aborted"
    \* ---- CycleFinder.run ------------------------------------------------
    exchange_info,  \* the symbols the exchange lists when the finder runs
    allowed_coins,  \* the assets get_allowed_coins admits
    cycles_file,    \* possible_cycles.json: NoFile or the list of cycles
    \* ---- ProfitMonitor setup --------------------------------------------
    symbols_info,       \* symbol -> metadata, as fetched by the monitor
    structured_cycles,  \* the list of Cycle objects (coins, steps)
    all_trade_pairs,    \* the set of pairs the kept cycles use
    pair_to_cycles,     \* pair -> list of references into structured_cycles
    monitor_pc,         \* "new" | "loaded" | "running" | "stopped"
    trade_fees,         \* pair -> taker fee (client.get_trade_fees())
    min_profit_threshold,
    \* ---- Cycle.calculate_profit, one call --------------------------------
    cp_cycle,       \* the cycle the call is made on (a reference)
    cp_i,           \* the step the for loop is at
    cp_amount,      \* the local variable amount
    cp_result,      \* NoResult, or how the call ended
    \* ---- ProfitMonitor, running ------------------------------------------
    latest_prices,            \* pair -> [b, a], the strings of the last frame
    latest_profits_by_cycle,  \* str(cycle) -> profit_pct
    profitable_cycles_queue,  \* NoQueue, or the opportunities waiting
    message,                  \* the frame ws.recv() returned last
    debug_log,                \* the "Calculated profit" records logged
    profits_txt,              \* output/profits/<day>/<hour>.txt, its entries
    enqueued,                 \* history: every opportunity put on the queue
    received,                 \* history: the pairs a frame was handled for
    listeners_alive,          \* the chunk listeners still in their loop
    ticks,                    \* history: the number of frames handled
    \* ---- ArbitrageBot.start ----------------------------------------------
    bot_pc,         \* "off" | "waiting" | "executing" | "stopped"
    bot_current,    \* the opportunity execute_cycle was called with
    exec_log,       \* history: the calls and returns of execute_cycle
    \* ---- BinanceClient, one call of a wrapper ----------------------------
    api_method,     \* "__init__" | "get_spot_balance"
    api_outcomes,   \* what the exchange answers to the requests still to come
    api_attempts,   \* history: the number of requests the call has issued
    api_pc,         \* "idle" | "calling" | "requested" | "returned" | "raised"
    api_result,     \* what the call returned, or the exception it raised
    \* ---- TradeExecutor: sizing of the first leg ---------------------------
    initial_investment,  \* config.initial_investment_usd
    max_slippage_pct,    \* config.max_slippage_pct
    sz_order_book,  \* the order book of the first pair: [bids, asks]
    sz_side,        \* "BUY" | "SELL"
    sz_i,           \* the level the for loop is at
    sz_total_amount,
    sz_total_cost,
    sz_pc,          \* "idle" | "walk" | "returned" | "sized"
    sz_optimal,     \* what _find_optimal_investment_amount returned
    current_amount, \* execute_cycle's running amount
    \* ---- TradeExecutor.execute_cycle --------------------------------------
    executor_info,  \* self.exchange_info: symbol -> metadata
    ex_pc,          \* "idle" | "tickers" | "sizing" | "leg" | "log"
    ex_leg,         \* the step the for loop is at
    current_asset,  \* execute_cycle's running asset
    ex_books,       \* history: the order books fetched by the call under way
    ex_tickers,     \* history: the tickers answered to the last call
    ex_done,        \* history: the calls that ended, with how they ended
    trades_csv,     \* output/trades/<day>/<hour>.csv: hour -> rows written
    clock_hour,     \* the hour datetime.now() is in
    \* ---- generate_whitelist ----------------------------------------------
    wl_exchange_info, \* what get_exchange_info answered: [present, symbols]
    wl_tickers,     \* what get_24h_ticker answered: a list of tickers
    top_n_pairs,    \* config.whitelist_top_n_pairs
    valid_pairs,    \* the candidates collected so far
    wl_i,           \* the symbol the for loop is at
    wl_pc,          \* "idle" | "start" | "filtering" | "saved" | "aborted"
    whitelist_file, \* configs/whitelist.json: [written, whitelist_assets, whitelist_pairs]
    \* ---- BinanceClient.get_trade_fees / get_trade_fee ----------------------
    client_trade_fees, \* self._trade_fees: symbol -> taker commission
    fee_requests,   \* history: the requests sent to the exchange
    fee_calls,      \* history: the calls made on the client
    fee_call,       \* history: the last call, [method, symbol]
    fee_result,     \* history: what the last call returned
    \* ---- ProfitMonitor.start / stop and the tasks they manage --------------
    tasks,          \* self.tasks
    task_state,     \* task -> "absent" | "connecting" | "connected" | "sleeping" | "done"
    cancel_requested, \* the tasks cancel() was called on and has not yet ended
    task_cancelled, \* history: the tasks a CancelledError ended
    start_pc,       \* start(): "not called" | "gathering" | "returned"
    stop_pc,        \* stop(): "not called" | "gathering" | "returned"
    stop_waits,     \* the tasks stop() gathers
    frames_handled, \* history: the frames the listeners handled
    prices_file,    \* the price map as _save_latest_prices wrote it
    prices_at_stop, \* history: the price map when stop() returned
    \* ---- ProfitMonitor._write_json_to_file in its worker thread ------------
    disk_file,      \* latest_prices.json as a reader finds it: [entries, complete]
    wr_pc,          \* "idle" | "writing" | "done" | "failed"
    wr_keys,        \* the keys the encoder's iteration goes through
    wr_i,           \* the key the iteration is at
    wr_instants,    \* history: the values the price map had since the call
    \* ---- Config ------------------------------------------------------------
    config_trading_fee, \* config.trading_fee
    \* ---- TradeExecutor._calculate_execution_price --------------------------
    xp_order_book,  \* the order book of the leg: [bids, asks]
    xp_side,        \* "BUY" | "SELL"
    xp_amount,      \* amount_to_trade
    xp_i,           \* the level the for loop is at
    remaining_amount,
    total_spent,
    total_filled,
    xp_pc,          \* "idle" | "walk" | "end" | "returned"
    xp_result       \* what the call returned: [ok, avg_price, filled]

finderVars == <<graph, start_node, max_length, stack, cycles, dfs_iters, finder_pc>>
runVars == <<exchange_info, allowed_coins, cycles_file>>
setupVars == <<symbols_info, structured_cycles, all_trade_pairs, pair_to_cycles, monitor_pc>>

feeVars == <<trade_fees, min_profit_threshold>>
profitVars == <<cp_cycle, cp_i, cp_amount, cp_result>>
monitorVars == <<latest_prices, latest_profits_by_cycle, profitable_cycles_queue,
                 message, debug_log, profits_txt, enqueued, received,
                 listeners_alive, ticks>>
botVars == <<bot_pc, bot_current, exec_log>>

adapterVars == <<api_method, api_outcomes, api_attempts, api_pc, api_result>>

\* the variables of the pipeline proper, and those of the parts around it
coreVars == <<finderVars, runVars, setupVars, feeVars, profitVars, monitorVars, botVars>>
sizingVars == <<initial_investment, max_slippage_pct, sz_order_book, sz_side, sz_i,
                sz_total_amount, sz_total_cost, sz_pc, sz_optimal, current_amount>>
szWalkVars == <<sz_order_book, sz_side, sz_i, sz_total_amount, sz_total_cost, sz_pc,
                sz_optimal>>
executorVars == <<executor_info, ex_pc, ex_leg, current_asset, ex_books, ex_tickers,
                  ex_done, trades_csv, clock_hour>>
whitelistVars == <<wl_exchange_info, wl_tickers, top_n_pairs, valid_pairs, wl_i, wl_pc,
                   whitelist_file>>
\* the parts modelled on their own
cacheVars == <<client_trade_fees, fee_requests, fee_calls, fee_call, fee_result>>
lifeVars == <<tasks, task_state, cancel_requested, task_cancelled, start_pc, stop_pc,
              stop_waits, frames_handled, prices_file, prices_at_stop>>
writerVars == <<disk_file, wr_pc, wr_keys, wr_i, wr_instants>>
configVars == <<config_trading_fee>>
walkVars == <<xp_order_book, xp_side, xp_amount, xp_i, remaining_amount,
              total_spent, total_filled, xp_pc, xp_result>>
restVars == <<writerVars, configVars, walkVars>>
lateVars == <<whitelistVars, cacheVars, lifeVars, restVars>>
baseExtVars == <<adapterVars, sizingVars, executorVars>>
extVars == <<adapterVars, sizingVars, executorVars, lateVars>>

\* what the actions of one part leave unchanged
notAdapterVars == <<coreVars, sizingVars, executorVars, lateVars>>
notSizingVars == <<coreVars, adapterVars, executorVars, lateVars>>
notWhitelistVars == <<coreVars, baseExtVars, cacheVars, lifeVars, restVars>>
notCacheVars == <<coreVars, baseExtVars, whitelistVars, lifeVars, restVars>>

vars == <<coreVars, extVars>>

-----------------------------------------------------------------------------
(* Bounds *)

NumNodes == 3
MaxLength == 4
NumSymbols == 4
MaxTicks == 3
\* constants.CHUNK_SIZE is 100; it is scaled down so that the pairs of the
\* model's cycles need more than one connection
ChunkSize == 2
\* the longest sequence of answers of the exchange to one call
MaxAnswers == 5
\* the largest number of levels on a side of an order book
MaxLevels == 2
\* the opportunities the executor is handed, and the hours its run spans
MaxOpps == 2
MaxHours == 2

\* the symbols the exchange lists to generate_whitelist
MaxListed == 3

\* the calls made on the fee methods of one client
MaxFeeCalls == 3

\* the frames the listeners of one monitor handle
MaxFrames == 2

\* the number of attempts the retry policy is stated with
StatedAttempts == 5

-----------------------------------------------------------------------------
(* Generic helpers *)

Contains(seq, x) == \E i \in 1..Len(seq) : seq[i] = x

Range(seq) == {seq[i] : i \in 1..Len(seq)}

Min(a, b) == IF a <= b THEN a ELSE b

\* the ascending list of a set of integers (the order a neighbour list is read in)
RECURSIVE SortedSeq(_)
SortedSeq(S) ==
    IF S = {} THEN <<>>
    ELSE LET m == CHOOSE x \in S : \A y \in S : x <= y
         IN <<m>> \o SortedSeq(S \ {m})

-----------------------------------------------------------------------------
(* cycle_finder.py: CycleFinder._find_cycles_dfs *)

\* graph.get(vertex, [])
graph_get(g, v) == IF v \in DOMAIN g THEN g[v] ELSE <<>>

\* a plausible slip: a round trip over one pair taken for a cycle
RECURSIVE dfs_expand_round_trips(_, _, _, _, _, _)
dfs_expand_round_trips(nbrs, i, path, start, stk, cyc) ==
    IF i > Len(nbrs) THEN [stack |-> stk, cycles |-> cyc]
    ELSE LET neighbor == nbrs[i] IN
         IF neighbor = start /\ Len(path) >= 2
         THEN dfs_expand_round_trips(nbrs, i + 1, path, start, stk,
                                     Append(cyc, Append(path, neighbor)))
         ELSE IF ~Contains(path, neighbor)
         THEN dfs_expand_round_trips(nbrs, i + 1, path, start,
                                     Append(stk, [vertex |-> neighbor,
                                                  path |-> Append(path, neighbor)]),
                                     cyc)
         ELSE dfs_expand_round_trips(nbrs, i + 1, path, start, stk, cyc)

\* the for loop over the neighbours of the popped vertex (lines 94-100),
\* from the i-th neighbour on
RECURSIVE dfs_expand(_, _, _, _, _, _)
dfs_expand(nbrs, i, path, start, stk, cyc) ==
    IF i > Len(nbrs) THEN [stack |-> stk, cycles |-> cyc]
    ELSE LET neighbor == nbrs[i] IN
         IF neighbor = start /\ Len(path) >= 3
         THEN dfs_expand(nbrs, i + 1, path, start, stk,
                         Append(cyc, Append(path, neighbor)))
         ELSE IF ~Contains(path, neighbor)
         THEN dfs_expand(nbrs, i + 1, path, start,
                         Append(stk, [vertex |-> neighbor,
                                      path |-> Append(path, neighbor)]),
                         cyc)
         ELSE dfs_expand(nbrs, i + 1, path, start, stk, cyc)

\* a plausible slip: the depth test written with >=, which cuts the paths of
\* exactly max_length assets
dfs_iteration_cut_early(g, start, L, stk, cyc) ==
    LET top == stk[Len(stk)]
        rest == SubSeq(stk, 1, Len(stk) - 1)
    IN IF Len(top.path) >= L
       THEN [stack |-> rest, cycles |-> cyc]
       ELSE dfs_expand(graph_get(g, top.vertex), 1, top.path, start, rest, cyc)

\* one iteration of the while loop (lines 86-100): pop, depth test, expand
dfs_iteration(g, start, L, stk, cyc) ==
    LET top == stk[Len(stk)]
        rest == SubSeq(stk, 1, Len(stk) - 1)
    IN IF Len(top.path) > L
       THEN [stack |-> rest, cycles |-> cyc]
       ELSE dfs_expand(graph_get(g, top.vertex), 1, top.path, start, rest, cyc)

\* lines 82-84: the initial stack
dfs_initial_stack(start) == <<[vertex |-> start, path |-> <<start>>]>>

\* the whole call, as a function of its arguments
RECURSIVE dfs_run(_, _, _, _, _)
dfs_run(g, start, L, stk, cyc) ==
    IF stk = <<>> THEN cyc
    ELSE LET r == dfs_iteration(g, start, L, stk, cyc)
         IN dfs_run(g, start, L, r.stack, r.cycles)

find_cycles_dfs(g, start, L) ==
    dfs_run(g, start, L, dfs_initial_stack(start), <<>>)

-----------------------------------------------------------------------------
(* Values of the variables of the parts a specification does not exercise *)

NoFile == "no file"
EmptyMap == [x \in {} |-> x]

RunIdle ==
    /\ exchange_info = <<>>
    /\ allowed_coins = {}
    /\ cycles_file = NoFile

SetupIdle ==
    /\ symbols_info = EmptyMap
    /\ structured_cycles = <<>>
    /\ all_trade_pairs = {}
    /\ pair_to_cycles = EmptyMap
    /\ monitor_pc = "new"

\* no call of calculate_profit has ended
NoResult == [kind |-> "none", value |-> <<0, 1>>]
\* ProfitMonitor(profitable_cycles_queue=None)
NoQueue == [attached |-> FALSE, items |-> <<>>]
\* no frame, no opportunity
NoMessage == [s |-> "", b |-> "", a |-> ""]
NoOpportunity == [seq |-> 0]

FinderIdle ==
    /\ graph = EmptyMap
    /\ start_node = "U"
    /\ max_length = 3
    /\ stack = <<>>
    /\ cycles = <<>>
    /\ dfs_iters = 0
    /\ finder_pc = "saved"

FeeIdle ==
    /\ trade_fees = EmptyMap
    /\ min_profit_threshold = <<0, 1>>

ProfitIdle ==
    /\ cp_cycle = 0
    /\ cp_i = 0
    /\ cp_amount = <<1, 1>>
    /\ cp_result = NoResult

MonitorIdle ==
    /\ latest_prices = EmptyMap
    /\ latest_profits_by_cycle = EmptyMap
    /\ profitable_cycles_queue = NoQueue
    /\ message = NoMessage
    /\ debug_log = <<>>
    /\ profits_txt = <<>>
    /\ enqueued = <<>>
    /\ received = {}
    /\ listeners_alive = {}
    /\ ticks = 0

BotIdle ==
    /\ bot_pc = "off"
    /\ bot_current = NoOpportunity
    /\ exec_log = <<>>

AdapterIdle ==
    /\ api_method = "__init__"
    /\ api_outcomes = <<>>
    /\ api_attempts = 0
    /\ api_pc = "idle"
    /\ api_result = "none"

CoreIdle ==
    /\ FinderIdle /\ RunIdle /\ SetupIdle /\ FeeIdle
    /\ ProfitIdle /\ MonitorIdle /\ BotIdle

NoBook == [bids |-> <<>>, asks |-> <<>>]

SizingIdle ==
    /\ initial_investment = <<15, 1>>
    /\ max_slippage_pct = <<1, 10>>
    /\ sz_order_book = NoBook
    /\ sz_side = "BUY"
    /\ sz_i = 0
    /\ sz_total_amount = <<0, 1>>
    /\ sz_total_cost = <<0, 1>>
    /\ sz_pc = "idle"
    /\ sz_optimal = <<0, 1>>
    /\ current_amount = <<0, 1>>

ExecutorIdle ==
    /\ executor_info = EmptyMap
    /\ ex_pc = "idle"
    /\ ex_leg = 0
    /\ current_asset = ""
    /\ ex_books = <<>>
    /\ ex_tickers = <<>>
    /\ ex_done = <<>>
    /\ trades_csv = EmptyMap
    /\ clock_hour = 0

WhitelistIdle ==
    /\ wl_exchange_info = [present |-> FALSE, symbols |-> <<>>]
    /\ wl_tickers = <<>>
    /\ top_n_pairs = 0
    /\ valid_pairs = <<>>
    /\ wl_i = 0
    /\ wl_pc = "idle"
    /\ whitelist_file = [written |-> FALSE, whitelist_assets |-> {}, whitelist_pairs |-> {}]

NoFeeCall == [method |-> "none", symbol |-> ""]
NoFeeResult == [kind |-> "none", fee |-> <<0, 1>>, table |-> EmptyMap]

CacheIdle ==
    /\ client_trade_fees = EmptyMap
    /\ fee_requests = 0
    /\ fee_calls = 0
    /\ fee_call = NoFeeCall
    /\ fee_result = NoFeeResult

BaseExtIdle == AdapterIdle /\ SizingIdle /\ ExecutorIdle

\* the tasks start() creates: one listener a chunk and the snapshot task
Listeners == {"listener 1", "listener 2"}
AllTasks == Listeners \cup {"logger"}

LifeIdle ==
    /\ tasks = {}
    /\ task_state = [t \in AllTasks |-> "absent"]
    /\ cancel_requested = {}
    /\ task_cancelled = {}
    /\ start_pc = "not called"
    /\ stop_pc = "not called"
    /\ stop_waits = {}
    /\ frames_handled = 0
    /\ prices_file = EmptyMap
    /\ prices_at_stop = EmptyMap

\* no file written yet by this run
NoDiskFile == [entries |-> <<>>, complete |-> TRUE]

WriterIdle ==
    /\ disk_file = NoDiskFile
    /\ wr_pc = "idle"
    /\ wr_keys = <<>>
    /\ wr_i = 0
    /\ wr_instants = {}

\* config.py line 37: the default of trading_fee
ConfigIdle == config_trading_fee = <<1, 1000>>

\* the answer (None, None)
NoPrice == [ok |-> FALSE, avg_price |-> <<0, 1>>, filled |-> <<0, 1>>]

WalkIdle ==
    /\ xp_order_book = NoBook
    /\ xp_side = "BUY"
    /\ xp_amount = <<1, 1>>
    /\ xp_i = 0
    /\ remaining_amount = <<0, 1>>
    /\ total_spent = <<0, 1>>
    /\ total_filled = <<0, 1>>
    /\ xp_pc = "idle"
    /\ xp_result = NoPrice

RestIdle == WriterIdle /\ ConfigIdle /\ WalkIdle

LateIdle == WhitelistIdle /\ CacheIdle /\ LifeIdle /\ RestIdle

ExtIdle == AdapterIdle /\ SizingIdle /\ ExecutorIdle /\ LateIdle

-----------------------------------------------------------------------------
(* Specification SpecDfs: _find_cycles_dfs on every small adjacency map *)

Nodes == 1..NumNodes

\* every adjacency map over a subset of the nodes, without self loops
DfsGraphs ==
    UNION { [D -> UNION {{SortedSeq(S)} : S \in SUBSET Nodes}] : D \in SUBSET Nodes }

DfsInit ==
    /\ graph \in DfsGraphs
    /\ \A v \in DOMAIN graph : ~Contains(graph[v], v)
    /\ start_node \in Nodes
    /\ max_length \in 1..MaxLength
    /\ stack = dfs_initial_stack(start_node)
    /\ cycles = <<>>
    /\ dfs_iters = 0
    /\ finder_pc = "dfs"
    /\ RunIdle
    /\ SetupIdle
    /\ FeeIdle /\ ProfitIdle /\ MonitorIdle /\ BotIdle
    /\ ExtIdle

\* one iteration of the while loop
DfsStep ==
    /\ finder_pc = "dfs"
    /\ stack # <<>>
    /\ LET r == dfs_iteration(graph, start_node, max_length, stack, cycles)
       IN /\ stack' = r.stack
          /\ cycles' = r.cycles
    /\ dfs_iters' = dfs_iters + 1
    /\ UNCHANGED <<extVars, graph, start_node, max_length, finder_pc, runVars, setupVars,
                   feeVars, profitVars, monitorVars, botVars>>

\* the loop ends on the empty stack and the cycles are returned
DfsReturn ==
    /\ finder_pc = "dfs"
    /\ stack = <<>>
    /\ finder_pc' = "done"
    /\ UNCHANGED <<extVars, graph, start_node, max_length, stack, cycles, dfs_iters,
                   runVars, setupVars, feeVars, profitVars, monitorVars, botVars>>

DfsNext == DfsStep \/ DfsReturn

SpecDfs == DfsInit /\ [][DfsNext]_vars

-----------------------------------------------------------------------------
(* C1 *)

\* the assets an adjacency map mentions
GraphNodes(g, b) == {b} \cup DOMAIN g \cup UNION {Range(g[v]) : v \in DOMAIN g}

\* the paths [b, v1, ..., vk] of between 3 and L pairwise distinct assets whose
\* consecutive assets are adjacent and whose last asset is adjacent to b
\* (a path of pairwise distinct assets has at most |GraphNodes| assets)
SimpleCyclePaths(g, b, L) ==
    LET N == GraphNodes(g, b)
    IN UNION { { p \in [1..k -> N] :
                   /\ p[1] = b
                   /\ \A i, j \in 1..k : i # j => p[i] # p[j]
                   /\ \A i \in 1..(k - 1) : Contains(graph_get(g, p[i]), p[i + 1])
                   /\ Contains(graph_get(g, p[k]), b) }
               : k \in 3..Min(L, Cardinality(N)) }

\* the number of paths of at most d pairwise distinct assets that start at a
\* given asset when m other assets are available
RECURSIVE CountPaths(_, _)
CountPaths(m, d) == IF d = 0 THEN 0 ELSE 1 + m * CountPaths(m - 1, d - 1)

-----------------------------------------------------------------------------
(* The exchange: the symbols it may list *)

\* config.base_currency
BaseCurrency == "U"

\* The candidate symbols, as (baseAsset, quoteAsset); the symbol of a pair is
\* baseAsset ++ quoteAsset, the exchange's convention.
SymbolUniverse ==
    << [baseAsset |-> "BC", quoteAsset |-> "U"],
       [baseAsset |-> "A",  quoteAsset |-> "U"],
       [baseAsset |-> "BC", quoteAsset |-> "A"],
       [baseAsset |-> "AB", quoteAsset |-> "C"],
       [baseAsset |-> "AB", quoteAsset |-> "U"],
       [baseAsset |-> "C",  quoteAsset |-> "U"] >>

SymbolOf(u) == u.baseAsset \o u.quoteAsset

UniverseAssets ==
    UNION { {SymbolUniverse[i].baseAsset, SymbolUniverse[i].quoteAsset} : i \in 1..NumSymbols }

\* the listing in which symbol i is absent, TRADING or BREAK (halted)
RECURSIVE ListingFrom(_, _)
ListingFrom(f, i) ==
    IF i > NumSymbols THEN <<>>
    ELSE IF f[i] = "absent" THEN ListingFrom(f, i + 1)
    ELSE << [symbol |-> SymbolOf(SymbolUniverse[i]),
             baseAsset |-> SymbolUniverse[i].baseAsset,
             quoteAsset |-> SymbolUniverse[i].quoteAsset,
             status |-> f[i]] >> \o ListingFrom(f, i + 1)

\* every exchange_info['symbols'] list the model draws
ExchangeInfos ==
    { ListingFrom(f, 1) : f \in [1..NumSymbols -> {"absent", "TRADING", "BREAK"}] }

\* the results of get_allowed_coins the model draws: nothing (the whitelist
\* could not be read), every asset, every asset but one
AllowedChoices ==
    {{}, UniverseAssets} \cup { UniverseAssets \ {a} : a \in {"A", "AB"} }

-----------------------------------------------------------------------------
(* cycle_finder.py: CycleFinder._get_trading_pairs and CycleFinder.run *)

\* the for loop of _get_trading_pairs (lines 51-63), from the i-th symbol on
RECURSIVE get_trading_pairs_from(_, _, _)
get_trading_pairs_from(symbols, i, pairs) ==
    IF i > Len(symbols) THEN pairs
    ELSE LET s == symbols[i] IN
         IF s.status = "TRADING"
         THEN LET p1 == IF s.baseAsset \in DOMAIN pairs THEN pairs
                        ELSE pairs @@ (s.baseAsset :> <<>>)
                  p2 == IF s.quoteAsset \in DOMAIN p1 THEN p1
                        ELSE p1 @@ (s.quoteAsset :> <<>>)
                  p3 == [p2 EXCEPT ![s.baseAsset] = Append(@, s.quoteAsset)]
                  p4 == [p3 EXCEPT ![s.quoteAsset] = Append(@, s.baseAsset)]
              IN get_trading_pairs_from(symbols, i + 1, p4)
         ELSE get_trading_pairs_from(symbols, i + 1, pairs)

get_trading_pairs(symbols) == get_trading_pairs_from(symbols, 1, EmptyMap)

\* run, step 3 (lines 222-227): keep the allowed coins and their allowed neighbours
filter_trading_pairs(all_trading_pairs, allowed) ==
    LET filtered(c) == SelectSeq(all_trading_pairs[c], LAMBDA n : n \in allowed)
        keep == { c \in DOMAIN all_trading_pairs : c \in allowed /\ filtered(c) # <<>> }
    IN [c \in keep |-> filtered(c)]

-----------------------------------------------------------------------------
(* common/utils.py: structure_cycles_and_get_pairs *)

\* line 127: the symbol a transition is resolved to
pair_symbol_of(coins, i, info) ==
    IF (coins[i + 1] \o coins[i]) \in DOMAIN info
    THEN coins[i + 1] \o coins[i]
    ELSE coins[i] \o coins[i + 1]

\* a plausible slip: an unresolved transition is skipped and the cycle kept
RECURSIVE structure_steps_skipping(_, _, _, _)
structure_steps_skipping(coins, i, info, steps) ==
    IF i > Len(coins) - 1 THEN [valid |-> TRUE, steps |-> steps]
    ELSE LET pair_symbol == pair_symbol_of(coins, i, info) IN
         IF pair_symbol \notin DOMAIN info \/ info[pair_symbol].status # "TRADING"
         THEN structure_steps_skipping(coins, i + 1, info, steps)
         ELSE structure_steps_skipping(coins, i + 1, info,
                  Append(steps, [pair |-> pair_symbol, from |-> coins[i], to |-> coins[i + 1]]))

\* the inner loop (lines 125-140) from the i-th transition on
RECURSIVE structure_steps(_, _, _, _)
structure_steps(coins, i, info, steps) ==
    IF i > Len(coins) - 1 THEN [valid |-> TRUE, steps |-> steps]
    ELSE LET pair_symbol == pair_symbol_of(coins, i, info) IN
         IF pair_symbol \notin DOMAIN info
         THEN [valid |-> FALSE, steps |-> steps]
         ELSE IF info[pair_symbol].status # "TRADING"
         THEN [valid |-> FALSE, steps |-> steps]
         ELSE structure_steps(coins, i + 1, info,
                  Append(steps, [pair |-> pair_symbol, from |-> coins[i], to |-> coins[i + 1]]))

\* the outer loop (lines 121-145) from the k-th cycle on
RECURSIVE structure_cycles_from(_, _, _, _, _)
structure_cycles_from(cycles_coins, k, info, structured, pairs) ==
    IF k > Len(cycles_coins) THEN [structured_cycles |-> structured, all_pairs |-> pairs]
    ELSE LET coins == cycles_coins[k]
             r == structure_steps(coins, 1, info, <<>>)
         IN IF r.valid
            THEN structure_cycles_from(cycles_coins, k + 1, info,
                     Append(structured, [coins |-> coins, steps |-> r.steps]),
                     pairs \cup {r.steps[j].pair : j \in 1..Len(r.steps)})
            ELSE structure_cycles_from(cycles_coins, k + 1, info, structured, pairs)

structure_cycles_and_get_pairs(cycles_coins, info) ==
    structure_cycles_from(cycles_coins, 1, info, <<>>, {})

-----------------------------------------------------------------------------
(* profit_calculator.py: get_exchange_info_map, load_cycles_and_map_pairs *)

\* {s['symbol']: s for s in exchange_info['symbols']}
exchange_info_map(symbols) ==
    [ sym \in {symbols[i].symbol : i \in 1..Len(symbols)} |->
        LET i == CHOOSE j \in 1..Len(symbols) :
                    /\ symbols[j].symbol = sym
                    /\ \A l \in (j + 1)..Len(symbols) : symbols[l].symbol # sym
        IN symbols[i] ]

\* lines 90-95: the steps of cycle c from the j-th on
RECURSIVE map_steps(_, _, _, _)
map_steps(cycs, c, j, m) ==
    IF j > Len(cycs[c].steps) THEN m
    ELSE LET pair == cycs[c].steps[j].pair
             m1 == IF pair \in DOMAIN m THEN m ELSE m @@ (pair :> <<>>)
         IN map_steps(cycs, c, j + 1, [m1 EXCEPT ![pair] = Append(@, c)])

RECURSIVE map_pairs(_, _, _)
map_pairs(cycs, c, m) ==
    IF c > Len(cycs) THEN m
    ELSE map_pairs(cycs, c + 1, map_steps(cycs, c, 1, m))

-----------------------------------------------------------------------------
(* Specification SpecCycles: find the cycles of a listing, save them, and    *)
(* structure them against the listing the monitor fetches later.             *)

CyclesInit ==
    /\ exchange_info \in ExchangeInfos
    /\ allowed_coins \in AllowedChoices
    /\ cycles_file = NoFile
    /\ start_node = BaseCurrency
    /\ max_length \in 3..MaxLength
    /\ graph = EmptyMap
    /\ stack = <<>>
    /\ cycles = <<>>
    /\ dfs_iters = 0
    /\ finder_pc = "idle"
    /\ SetupIdle
    /\ FeeIdle /\ ProfitIdle /\ MonitorIdle /\ BotIdle
    /\ ExtIdle

\* CycleFinder.run up to the call of _find_cycles_dfs (lines 212-230)
FinderRun ==
    /\ finder_pc = "idle"
    /\ IF allowed_coins = {}
       THEN /\ finder_pc' = "aborted"
            /\ UNCHANGED <<graph, stack>>
       ELSE /\ graph' = filter_trading_pairs(get_trading_pairs(exchange_info), allowed_coins)
            /\ stack' = dfs_initial_stack(start_node)
            /\ finder_pc' = "dfs"
    /\ UNCHANGED <<extVars, start_node, max_length, cycles, dfs_iters, runVars, setupVars,
                   feeVars, profitVars, monitorVars, botVars>>

\* CycleFinder._save_cycles (lines 103-122)
SaveCycles ==
    /\ finder_pc = "done"
    /\ cycles_file' = cycles
    /\ finder_pc' = "saved"
    /\ UNCHANGED <<extVars, graph, start_node, max_length, stack, cycles, dfs_iters,
                   exchange_info, allowed_coins, setupVars,
                   feeVars, profitVars, monitorVars, botVars>>

\* ProfitMonitor._setup (lines 217-238): fetch the listing, load and structure
\* the cycles, build pair_to_cycles
LoadCycles ==
    /\ finder_pc \in {"saved", "aborted"}
    /\ monitor_pc = "new"
    /\ \E listing \in ExchangeInfos :
         LET info == exchange_info_map(listing)
             cycles_coins == IF cycles_file = NoFile THEN <<>> ELSE cycles_file
             r == structure_cycles_and_get_pairs(cycles_coins, info)
         IN IF info = EmptyMap
            THEN /\ monitor_pc' = "stopped"
                 /\ UNCHANGED <<symbols_info, structured_cycles, all_trade_pairs, pair_to_cycles>>
            ELSE /\ symbols_info' = info
                 /\ structured_cycles' = r.structured_cycles
                 /\ all_trade_pairs' = r.all_pairs
                 /\ pair_to_cycles' = map_pairs(r.structured_cycles, 1, EmptyMap)
                 /\ monitor_pc' = IF r.structured_cycles = <<>> THEN "stopped" ELSE "loaded"
    /\ UNCHANGED <<extVars, finderVars, runVars, feeVars, profitVars, monitorVars, botVars>>

CyclesNext == FinderRun \/ DfsStep \/ DfsReturn \/ SaveCycles \/ LoadCycles

SpecCycles == CyclesInit /\ [][CyclesNext]_vars

-----------------------------------------------------------------------------
(* C2, C3 *)

\* C2: every cycle found from base_currency and kept by
\* structure_cycles_and_get_pairs has one step per transition, its first step
\* leaves base_currency, its last step returns to it, and each step starts
\* where the previous one ended.
C2_StepsChain ==
    \A k \in 1..Len(structured_cycles) :
        LET c == structured_cycles[k]
            n == Len(c.steps)
        IN /\ n = Len(c.coins) - 1
           /\ n >= 1
           /\ c.steps[1].from = BaseCurrency
           /\ c.steps[n].to = BaseCurrency
           /\ \A i \in 1..(n - 1) : c.steps[i].to = c.steps[i + 1].from

\* a found triangle was kept with its three steps
C2_Witness ==
    /\ monitor_pc = "loaded"
    /\ \E k \in 1..Len(structured_cycles) :
          /\ structured_cycles[k].coins = <<"U", "BC", "A", "U">>
          /\ Len(structured_cycles[k].steps) = 3

\* C3: every step of a kept cycle trades the two assets of its pair:
\* {from, to} = {baseAsset, quoteAsset} of symbols_info[pair].
C3_StepMatchesPair ==
    \A k \in 1..Len(structured_cycles) :
        \A i \in 1..Len(structured_cycles[k].steps) :
            LET s == structured_cycles[k].steps[i]
            IN {s.from, s.to} = {symbols_info[s.pair].baseAsset,
                                 symbols_info[s.pair].quoteAsset}

-----------------------------------------------------------------------------
(* Decimal values.  A Decimal is modelled by the rational <<n, d>> in lowest *)
(* terms with d > 0.  The context precision is 15 digits (constants.py line  *)
(* 13); the price and fee values drawn below (asks of 0, 0.5 and 1, bids of  *)
(* 1 and 2, fees of 0, 0.001 and 0.01) are chosen so that every product and  *)
(* quotient of a cycle of at most three steps has at most 15 significant     *)
(* digits, so no operation rounds and the rational is the exact Decimal      *)
(* result.                                                                   *)

Abs(n) == IF n < 0 THEN -n ELSE n

RECURSIVE GCD(_, _)
GCD(a, b) == IF b = 0 THEN a ELSE GCD(b, a % b)

Norm(n, d) ==
    LET g == GCD(Abs(n), d)
    IN IF n < 0 THEN <<-(Abs(n) \div g), d \div g>> ELSE <<n \div g, d \div g>>

Zero == <<0, 1>>
One == <<1, 1>>
Hundred == <<100, 1>>

\* x * y, reduced across before multiplying
RatMul(x, y) ==
    LET g1 == GCD(Abs(x[1]), y[2])
        g2 == GCD(Abs(y[1]), x[2])
    IN Norm((x[1] \div g1) * (y[1] \div g2), (x[2] \div g2) * (y[2] \div g1))

\* x / y for y # 0
RatDiv(x, y) ==
    IF y[1] > 0 THEN RatMul(x, <<y[2], y[1]>>) ELSE RatMul(x, <<-y[2], -y[1]>>)

RatSub(x, y) == Norm(x[1] * y[2] - y[1] * x[2], x[2] * y[2])

\* x > y
RatGreater(x, y) ==
    LET g == GCD(x[2], y[2])
    IN x[1] * (y[2] \div g) > y[1] * (x[2] \div g)

\* Decimal(s) for the price strings a frame may carry
DecimalOf(s) ==
    CASE s = "0.00000000" -> <<0, 1>>
      [] s = "0.5" -> <<1, 2>>
      [] s = "1.00" -> <<1, 1>>
      [] s = "2" -> <<2, 1>>

\* Decimal('0.001'), the fee of a pair the fee table has no entry for
DefaultFee == <<1, 1000>>

-----------------------------------------------------------------------------
(* cycle.py: Cycle.calculate_profit *)

\* a plausible slip: the guard on a zero ask left out, the division raising
profit_step_unguarded(amount, step, prices, info, fees) ==
    LET pair_symbol == step.pair IN
    IF pair_symbol \notin DOMAIN info THEN [kind |-> "KeyError", amount |-> amount]
    ELSE IF pair_symbol \notin DOMAIN prices THEN [kind |-> "KeyError", amount |-> amount]
    ELSE LET trading_fee == IF pair_symbol \in DOMAIN fees THEN fees[pair_symbol]
                            ELSE DefaultFee
         IN IF step.from = info[pair_symbol].quoteAsset
            THEN LET price == DecimalOf(prices[pair_symbol].a)
                 IN IF price = Zero
                    THEN [kind |-> "DivisionByZero", amount |-> amount]
                    ELSE [kind |-> "next",
                          amount |-> RatMul(RatDiv(amount, price), RatSub(One, trading_fee))]
            ELSE LET price == DecimalOf(prices[pair_symbol].b)
                 IN [kind |-> "next",
                     amount |-> RatMul(RatMul(amount, price), RatSub(One, trading_fee))]

\* a plausible slip: the fee taken inside the BUY branch only
profit_step_fee_on_buy_only(amount, step, prices, info, fees) ==
    LET pair_symbol == step.pair IN
    IF pair_symbol \notin DOMAIN info THEN [kind |-> "KeyError", amount |-> amount]
    ELSE IF pair_symbol \notin DOMAIN prices THEN [kind |-> "KeyError", amount |-> amount]
    ELSE LET trading_fee == IF pair_symbol \in DOMAIN fees THEN fees[pair_symbol]
                            ELSE DefaultFee
         IN IF step.from = info[pair_symbol].quoteAsset
            THEN LET price == DecimalOf(prices[pair_symbol].a)
                 IN IF price = Zero
                    THEN [kind |-> "return", amount |-> Zero]
                    ELSE [kind |-> "next",
                          amount |-> RatMul(RatDiv(amount, price), RatSub(One, trading_fee))]
            ELSE LET price == DecimalOf(prices[pair_symbol].b)
                 IN [kind |-> "next", amount |-> RatMul(amount, price)]

\* one iteration of the for loop (lines 51-76): "next" with the new amount,
\* "return" on a zero ask, "KeyError" on a missing symbol or price
profit_step(amount, step, prices, info, fees) ==
    LET pair_symbol == step.pair IN
    IF pair_symbol \notin DOMAIN info THEN [kind |-> "KeyError", amount |-> amount]
    ELSE IF pair_symbol \notin DOMAIN prices THEN [kind |-> "KeyError", amount |-> amount]
    ELSE LET trading_fee == IF pair_symbol \in DOMAIN fees THEN fees[pair_symbol]
                            ELSE DefaultFee
         IN IF step.from = info[pair_symbol].quoteAsset
            THEN LET price == DecimalOf(prices[pair_symbol].a)
                 IN IF price = Zero
                    THEN [kind |-> "return", amount |-> Zero]
                    ELSE [kind |-> "next",
                          amount |-> RatMul(RatDiv(amount, price), RatSub(One, trading_fee))]
            ELSE LET price == DecimalOf(prices[pair_symbol].b)
                 IN [kind |-> "next",
                     amount |-> RatMul(RatMul(amount, price), RatSub(One, trading_fee))]

\* lines 79-80
profit_pct_of(amount) == RatMul(RatDiv(RatSub(amount, One), One), Hundred)

\* the whole call from the i-th step on: [kind |-> "return", value |-> profit]
\* or [kind |-> the exception raised]
RECURSIVE calculate_profit_from(_, _, _, _, _, _)
calculate_profit_from(steps, i, amount, prices, info, fees) ==
    IF i > Len(steps) THEN [kind |-> "return", value |-> profit_pct_of(amount)]
    ELSE LET r == profit_step(amount, steps[i], prices, info, fees)
         IN IF r.kind = "next"
            THEN calculate_profit_from(steps, i + 1, r.amount, prices, info, fees)
            ELSE [kind |-> r.kind, value |-> r.amount]

calculate_profit(cycle, prices, info, fees) ==
    calculate_profit_from(cycle.steps, 1, One, prices, info, fees)

-----------------------------------------------------------------------------
(* Specification SpecProfit: one call of Cycle.calculate_profit on a cycle   *)
(* of the monitor, for every small price map, metadata map and fee table.    *)

\* the listing of the first k candidate symbols, all TRADING
TradingListing(k) ==
    ListingFrom([i \in 1..NumSymbols |-> IF i <= k THEN "TRADING" ELSE "absent"], 1)

\* the metadata maps the monitor is set up with
MonitorInfos == { exchange_info_map(TradingListing(k)) : k \in 3..NumSymbols }

\* possible_cycles.json for such a listing
CyclesOfListing(listing) ==
    find_cycles_dfs(get_trading_pairs(listing), BaseCurrency, 3)

\* the frames' (bid, ask) strings
BookTickers ==
    { [b |-> "1.00", a |-> "1.00"], [b |-> "2", a |-> "1.00"],
      [b |-> "1.00", a |-> "0.5"], [b |-> "2", a |-> "0.00000000"] }

\* every price map over a set of pairs, a pair having a quote or none
PriceMaps(pairs) == UNION { [D -> BookTickers] : D \in SUBSET pairs }

\* the fee tables: empty, a zero fee for every pair, one pair at 1%
FeeTables(pairs) ==
    { EmptyMap, [p \in pairs |-> Zero], [p \in pairs \cap {"BCU"} |-> <<1, 100>>] }

ProfitInit ==
    /\ \E k \in {NumSymbols} :
         LET listing == TradingListing(k)
             info == exchange_info_map(listing)
             r == structure_cycles_and_get_pairs(CyclesOfListing(listing), info)
         IN /\ structured_cycles = r.structured_cycles
            /\ all_trade_pairs = r.all_pairs
            /\ pair_to_cycles = map_pairs(r.structured_cycles, 1, EmptyMap)
            \* the metadata handed to the call: the monitor's, or one with a
            \* symbol missing
            /\ symbols_info \in {info, [s \in DOMAIN info \ {"AU"} |-> info[s]]}
    /\ monitor_pc = "loaded"
    /\ trade_fees \in FeeTables(all_trade_pairs)
    /\ min_profit_threshold = Zero
    /\ latest_prices \in PriceMaps(all_trade_pairs)
    /\ cp_cycle \in 1..Len(structured_cycles)
    /\ cp_i = 1
    /\ cp_amount = One
    /\ cp_result = NoResult
    /\ latest_profits_by_cycle = EmptyMap
    /\ profitable_cycles_queue = NoQueue
    /\ message = NoMessage
    /\ debug_log = <<>>
    /\ profits_txt = <<>>
    /\ enqueued = <<>>
    /\ received = {}
    /\ listeners_alive = {}
    /\ ticks = 0
    /\ FinderIdle /\ RunIdle /\ BotIdle
    /\ BaseExtIdle /\ WhitelistIdle /\ CacheIdle /\ LifeIdle /\ WriterIdle /\ WalkIdle
    \* config.py lines 37 and 81: trading_fee, the default or the value of
    \* strategy.json
    /\ config_trading_fee \in {<<1, 1000>>, <<1, 100>>}

\* one iteration of the for loop of calculate_profit
ProfitStep ==
    /\ cp_result = NoResult
    /\ cp_i <= Len(structured_cycles[cp_cycle].steps)
    /\ LET r == profit_step(cp_amount, structured_cycles[cp_cycle].steps[cp_i],
                            latest_prices, symbols_info, trade_fees)
       IN IF r.kind = "next"
          THEN /\ cp_amount' = r.amount
               /\ cp_i' = cp_i + 1
               /\ UNCHANGED cp_result
          ELSE /\ cp_result' = [kind |-> r.kind, value |-> r.amount]
               /\ UNCHANGED <<cp_amount, cp_i>>
    /\ UNCHANGED <<extVars, cp_cycle, finderVars, runVars, setupVars, feeVars, monitorVars, botVars>>

\* the loop is over: lines 79-80
ProfitReturn ==
    /\ cp_result = NoResult
    /\ cp_i > Len(structured_cycles[cp_cycle].steps)
    /\ cp_result' = [kind |-> "return", value |-> profit_pct_of(cp_amount)]
    /\ UNCHANGED <<extVars, cp_cycle, cp_i, cp_amount,
                   finderVars, runVars, setupVars, feeVars, monitorVars, botVars>>

ProfitNext == ProfitStep \/ ProfitReturn

SpecProfit == ProfitInit /\ [][ProfitNext]_vars

-----------------------------------------------------------------------------
(* C4, C5 *)

\* no Decimal: the value of a division by zero
Undefined == <<0, 0>>

CpSteps == structured_cycles[cp_cycle].steps

IsBuy(step) == step.from = symbols_info[step.pair].quoteAsset

FeeOf(pair) == IF pair \in DOMAIN trade_fees THEN trade_fees[pair] ELSE DefaultFee

AllPairsPresent ==
    \A i \in 1..Len(CpSteps) :
        CpSteps[i].pair \in DOMAIN latest_prices /\ CpSteps[i].pair \in DOMAIN symbols_info

\* the amount the claim describes after the first n steps: divided by the ask
\* on a BUY, multiplied by the bid otherwise, then multiplied by 1 - fee;
\* a division by zero has no value
RECURSIVE FoldAmount(_)
FoldAmount(n) ==
    IF n = 0 THEN One
    ELSE LET prev == FoldAmount(n - 1)
             s == CpSteps[n]
             keep == RatSub(One, FeeOf(s.pair))
         IN IF prev = Undefined THEN Undefined
            ELSE IF IsBuy(s)
            THEN IF DecimalOf(latest_prices[s.pair].a) = Zero THEN Undefined
                 ELSE RatMul(RatDiv(prev, DecimalOf(latest_prices[s.pair].a)), keep)
            ELSE RatMul(RatMul(prev, DecimalOf(latest_prices[s.pair].b)), keep)

FoldProfit ==
    LET amount == FoldAmount(Len(CpSteps))
    IN IF amount = Undefined THEN Undefined
       ELSE RatMul(RatSub(amount, One), Hundred)

NoZeroAskBuy ==
    \A i \in 1..Len(CpSteps) :
        ~(IsBuy(CpSteps[i]) /\ DecimalOf(latest_prices[CpSteps[i].pair].a) = Zero)

\* C4 as stated: whenever all pairs of the cycle are present in prices and
\* symbols_info, calculate_profit returns (amount - 1) * 100 for the folded amount.
C4_AsStated ==
    (cp_result # NoResult /\ AllPairsPresent) =>
        (cp_result.kind = "return" /\ cp_result.value = FoldProfit)

\* C4, amended: whenever all pairs of the cycle are present in prices and
\* symbols_info and no BUY step has an ask of zero, calculate_profit returns
\* (amount - 1) * 100 for the folded amount (fee: the table entry, else 0.001).
C4_FoldWhenNoZeroAsk ==
    (cp_result # NoResult /\ AllPairsPresent /\ NoZeroAskBuy) =>
        (cp_result.kind = "return" /\ cp_result.value = FoldProfit)

\* a three-step cycle with a BUY, a SELL and a pair without a fee entry was
\* evaluated to a profit other than zero
C4_Witness ==
    /\ cp_result # NoResult
    /\ AllPairsPresent /\ NoZeroAskBuy
    /\ Len(CpSteps) = 3
    /\ \E i, j \in 1..3 : IsBuy(CpSteps[i]) /\ ~IsBuy(CpSteps[j])
    /\ \E i \in 1..3 : CpSteps[i].pair \notin DOMAIN trade_fees
    /\ cp_result.kind = "return"
    /\ RatGreater(cp_result.value, Zero)

\* some BUY step has a zero ask and every step up to it has a price and metadata
ZeroAskBuyReached ==
    \E i \in 1..Len(CpSteps) :
        /\ \A j \in 1..i : /\ CpSteps[j].pair \in DOMAIN latest_prices
                           /\ CpSteps[j].pair \in DOMAIN symbols_info
        /\ IsBuy(CpSteps[i])
        /\ DecimalOf(latest_prices[CpSteps[i].pair].a) = Zero

\* C5: when some BUY step of the cycle has an ask of zero, calculate_profit
\* returns exactly 0 and raises nothing, wherever that step is and whatever the
\* other prices and fees are.
C5_ZeroAskReturnsZero ==
    (cp_result # NoResult /\ ZeroAskBuyReached) =>
        cp_result = [kind |-> "return", value |-> Zero]

\* the zero ask was on a BUY step other than the first, after steps that
\* changed the amount
C5_Witness ==
    /\ cp_result = [kind |-> "return", value |-> Zero]
    /\ cp_i > 1
    /\ cp_amount # One
    /\ IsBuy(CpSteps[cp_i])
    /\ DecimalOf(latest_prices[CpSteps[cp_i].pair].a) = Zero

-----------------------------------------------------------------------------
(* cycle.py: Cycle.__str__ *)

\* ' -> '.join(coins), from the i-th coin on
RECURSIVE join_coins(_, _)
join_coins(coins, i) ==
    IF i > Len(coins) THEN ""
    ELSE IF i = Len(coins) THEN coins[i]
    ELSE coins[i] \o " -> " \o join_coins(coins, i + 1)

cycle_str(cycle) == join_coins(cycle.coins, 1)

-----------------------------------------------------------------------------
(* profit_calculator.py: the handlers of ProfitMonitor.                      *)
(* A handler runs without suspension: the lock is never held across an await *)
(* and the queue is unbounded, so neither "async with" nor put() yields.     *)
(* The state a handler changes is threaded as the record st:                 *)
(*   profits, queue, debug, txt, enqueued, raised (an exception escaped).    *)

\* d[k] = v on a dict
dict_set(d, k, v) == (k :> v) @@ d

\* a plausible slip: the snapshot taken as a copy of the whole price map
price_snapshot_whole_map(steps, prices) == prices

\* a plausible slip: the snapshot read from the map as it was before the
\* frame's price was stored
price_snapshot_before_frame(steps, prices) ==
    [p \in {steps[i].pair : i \in 1..Len(steps)} |->
        IF p \in DOMAIN latest_prices THEN latest_prices[p] ELSE prices[p]]

\* line 181: {s['pair']: self.latest_prices[s['pair']] for s in steps}
price_snapshot(steps, prices) ==
    [p \in {steps[i].pair : i \in 1..Len(steps)} |-> prices[p]]

\* _log_profitable_opportunity (lines 141-162), for the cycle referenced by c
log_profitable_opportunity(c, profit_pct, prices, st) ==
    LET entry == [cycle |-> cycle_str(structured_cycles[c]),
                  profit_pct |-> profit_pct, prices |-> prices]
        opp == [cycle |-> c, profit_pct |-> profit_pct, prices |-> prices,
                seq |-> Len(st.enqueued) + 1]
        st1 == [st EXCEPT !.txt = Append(@, entry)]
    IN IF st.queue.attached
       THEN [st1 EXCEPT !.queue.items = Append(@, opp),
                        !.enqueued = Append(@, opp)]
       ELSE st1

\* a plausible slip: the publication test written with >=
publish_if_profitable_inclusive(c, profit_pct, steps, prices, st) ==
    IF ~RatGreater(min_profit_threshold, profit_pct)
    THEN log_profitable_opportunity(c, profit_pct, price_snapshot(steps, prices), st)
    ELSE st

\* lines 180-182
publish_if_profitable(c, profit_pct, steps, prices, st) ==
    IF RatGreater(profit_pct, min_profit_threshold)
    THEN log_profitable_opportunity(c, profit_pct, price_snapshot(steps, prices), st)
    ELSE st

\* a plausible slip: the early return on a missing price left out, the
\* KeyError of calculate_profit being relied on
calculate_and_log_profit_unguarded(c, prices, st) ==
    LET cycle == structured_cycles[c]
        r == calculate_profit(cycle, prices, symbols_info, trade_fees)
    IN IF r.kind = "return"
       THEN publish_if_profitable(c, r.value, cycle.steps, prices,
                [st EXCEPT !.debug = Append(@, [cycle |-> cycle_str(cycle),
                                                 profit_pct |-> r.value]),
                           !.profits = dict_set(@, cycle_str(cycle), r.value)])
       ELSE IF r.kind \in {"KeyError", "ValueError"} THEN st
       ELSE [st EXCEPT !.raised = TRUE]

\* calculate_and_log_profit (lines 165-185), for the cycle referenced by c
calculate_and_log_profit(c, prices, st) ==
    LET cycle == structured_cycles[c]
        steps == cycle.steps
    IN IF ~(\A i \in 1..Len(steps) : steps[i].pair \in DOMAIN prices)
       THEN st
       ELSE LET r == calculate_profit(cycle, prices, symbols_info, trade_fees)
            IN IF r.kind = "return"
               THEN publish_if_profitable(c, r.value, steps, prices,
                        [st EXCEPT !.debug = Append(@, [cycle |-> cycle_str(cycle),
                                                         profit_pct |-> r.value]),
                                   !.profits = dict_set(@, cycle_str(cycle), r.value)])
               ELSE IF r.kind \in {"KeyError", "ValueError"} THEN st
               ELSE [st EXCEPT !.raised = TRUE]

\* the for loop of _handle_websocket_message (lines 195-196) from the i-th
\* cycle on; an exception that escapes ends it
RECURSIVE handle_cycles(_, _, _, _)
handle_cycles(refs, i, prices, st) ==
    IF i > Len(refs) \/ st.raised THEN st
    ELSE handle_cycles(refs, i + 1, prices, calculate_and_log_profit(refs[i], prices, st))

\* a plausible slip: the cycles recomputed before the new price is stored
handle_websocket_message_stale(msg, prices, st) ==
    LET refs == IF msg.s \in DOMAIN pair_to_cycles THEN pair_to_cycles[msg.s] ELSE <<>>
    IN [prices |-> dict_set(prices, msg.s, [b |-> msg.b, a |-> msg.a]),
        st |-> handle_cycles(refs, 1, prices, st)]

\* _handle_websocket_message (lines 187-196) on the frame msg = (s, b, a)
handle_websocket_message(msg, prices, st) ==
    LET prices1 == dict_set(prices, msg.s, [b |-> msg.b, a |-> msg.a])
        refs == IF msg.s \in DOMAIN pair_to_cycles THEN pair_to_cycles[msg.s] ELSE <<>>
    IN [prices |-> prices1, st |-> handle_cycles(refs, 1, prices1, st)]

\* list(all_trade_pairs): a set is listed in an unspecified order; one order
\* is taken, the handlers being the same on every connection
RECURSIVE SeqOfSet(_)
SeqOfSet(S) ==
    IF S = {} THEN <<>>
    ELSE LET x == CHOOSE y \in S : TRUE IN <<x>> \o SeqOfSet(S \ {x})

\* start, line 246: the pairs cut into chunks, one connection per chunk
pair_chunks(pairs) ==
    LET l == SeqOfSet(pairs)
        n == (Len(l) + ChunkSize - 1) \div ChunkSize
    IN [k \in 1..n |-> SubSeq(l, (k - 1) * ChunkSize + 1, Min(k * ChunkSize, Len(l)))]

-----------------------------------------------------------------------------
(* bot.py: the consumer loop of ArbitrageBot.start *)

\* a plausible slip: the newest opportunity taken first
queue_get_newest(items) ==
    [item |-> items[Len(items)], rest |-> SubSeq(items, 1, Len(items) - 1)]

\* line 405: asyncio.Queue.get() hands out the oldest item
queue_get(items) == [item |-> Head(items), rest |-> Tail(items)]

-----------------------------------------------------------------------------
(* Specification SpecMonitor: the running monitor, with or without the bot   *)
(* consuming its queue.                                                      *)

\* the (bid, ask) strings of the frames
MonitorTickers ==
    { [b |-> "1.00", a |-> "1.00"], [b |-> "2", a |-> "0.00000000"] }

MonitorInit ==
    \* _setup has run on an exchange that lists the first NumSymbols symbols
    /\ LET listing == TradingListing(NumSymbols)
           info == exchange_info_map(listing)
           r == structure_cycles_and_get_pairs(CyclesOfListing(listing), info)
       IN /\ symbols_info = info
          /\ structured_cycles = r.structured_cycles
          /\ all_trade_pairs = r.all_pairs
          /\ pair_to_cycles = map_pairs(r.structured_cycles, 1, EmptyMap)
    /\ monitor_pc = "loaded"
    /\ trade_fees \in {EmptyMap, [p \in all_trade_pairs |-> Zero]}
    /\ min_profit_threshold = Zero
    \* latest_prices.json: absent, or the prices of an earlier run
    /\ latest_prices \in {EmptyMap, [p \in all_trade_pairs |-> [b |-> "1.00", a |-> "1.00"]]}
    /\ latest_profits_by_cycle = EmptyMap
    /\ \E attached \in BOOLEAN :
         /\ profitable_cycles_queue = [attached |-> attached, items |-> <<>>]
         /\ bot_pc = IF attached THEN "waiting" ELSE "off"
    /\ bot_current = NoOpportunity
    /\ exec_log = <<>>
    /\ message = NoMessage
    /\ debug_log = <<>>
    /\ profits_txt = <<>>
    /\ enqueued = <<>>
    /\ received = {}
    /\ listeners_alive = {}
    /\ ticks = 0
    /\ FinderIdle /\ RunIdle /\ ProfitIdle
    /\ ExtIdle

\* ProfitMonitor.start (lines 246-252): one listener task per chunk
MonitorStart ==
    /\ monitor_pc = "loaded"
    /\ monitor_pc' = "running"
    /\ listeners_alive' = DOMAIN pair_chunks(all_trade_pairs)
    /\ UNCHANGED <<extVars, finderVars, runVars, feeVars, profitVars, botVars,
                   symbols_info, structured_cycles, all_trade_pairs, pair_to_cycles,
                   latest_prices, latest_profits_by_cycle, profitable_cycles_queue,
                   message, debug_log, profits_txt, enqueued, received, ticks>>

\* listen_to_chunk (lines 207-215): a listener receives a frame for one of its
\* pairs and handles it; an exception that escapes the handler ends the listener
HandleMessage ==
    /\ monitor_pc = "running"
    /\ ticks < MaxTicks
    /\ \E l \in listeners_alive :
       \E pair \in Range(pair_chunks(all_trade_pairs)[l]) :
       \E bt \in MonitorTickers :
         LET msg == [s |-> pair, b |-> bt.b, a |-> bt.a]
             st0 == [profits |-> latest_profits_by_cycle,
                     queue |-> profitable_cycles_queue,
                     debug |-> debug_log, txt |-> profits_txt,
                     enqueued |-> enqueued, raised |-> FALSE]
             r == handle_websocket_message(msg, latest_prices, st0)
         IN /\ message' = msg
            /\ latest_prices' = r.prices
            /\ latest_profits_by_cycle' = r.st.profits
            /\ profitable_cycles_queue' = r.st.queue
            /\ debug_log' = r.st.debug
            /\ profits_txt' = r.st.txt
            /\ enqueued' = r.st.enqueued
            /\ listeners_alive' = IF r.st.raised THEN listeners_alive \ {l}
                                  ELSE listeners_alive
            /\ received' = received \cup {pair}
    /\ ticks' = ticks + 1
    /\ UNCHANGED <<extVars, finderVars, runVars, setupVars, feeVars, profitVars, botVars>>

\* the call of execute_cycle on the opportunity just taken, up to its first
\* await (bot.py line 238)
BeginExecute(r) ==
    /\ profitable_cycles_queue' = [profitable_cycles_queue EXCEPT !.items = r.rest]
    /\ bot_current' = r.item
    /\ bot_pc' = "executing"

\* lines 403-407: the waiting get() is handed an opportunity
BotGet ==
    /\ bot_pc = "waiting"
    /\ profitable_cycles_queue.items # <<>>
    /\ LET r == queue_get(profitable_cycles_queue.items)
       IN /\ BeginExecute(r)
          /\ exec_log' = Append(exec_log, [event |-> "call", opp |-> r.item])
    /\ UNCHANGED <<extVars, finderVars, runVars, setupVars, feeVars, profitVars,
                   latest_prices, latest_profits_by_cycle, message, debug_log,
                   profits_txt, enqueued, received, listeners_alive, ticks>>

\* lines 407-409 and 403-405: execute_cycle returns, task_done(), and get()
\* is called again; it returns at once when an opportunity is waiting
ExecuteReturn ==
    /\ bot_pc = "executing"
    /\ LET returned == Append(exec_log, [event |-> "return", opp |-> bot_current])
       IN IF profitable_cycles_queue.items # <<>>
          THEN LET r == queue_get(profitable_cycles_queue.items)
               IN /\ BeginExecute(r)
                  /\ exec_log' = Append(returned, [event |-> "call", opp |-> r.item])
          ELSE /\ bot_pc' = "waiting"
               /\ exec_log' = returned
               /\ UNCHANGED <<profitable_cycles_queue, bot_current>>
    /\ UNCHANGED <<extVars, finderVars, runVars, setupVars, feeVars, profitVars,
                   latest_prices, latest_profits_by_cycle, message, debug_log,
                   profits_txt, enqueued, received, listeners_alive, ticks>>

\* lines 416-419: execute_cycle raises; the loop is left and the monitor
\* stopped (ProfitMonitor.stop, lines 254-260)
ExecuteRaise ==
    /\ bot_pc = "executing"
    /\ exec_log' = Append(exec_log, [event |-> "raise", opp |-> bot_current])
    /\ bot_pc' = "stopped"
    /\ monitor_pc' = "stopped"
    /\ listeners_alive' = {}
    /\ UNCHANGED <<extVars, finderVars, runVars, feeVars, profitVars, bot_current,
                   symbols_info, structured_cycles, all_trade_pairs, pair_to_cycles,
                   latest_prices, latest_profits_by_cycle, profitable_cycles_queue,
                   message, debug_log, profits_txt, enqueued, received, ticks>>

MonitorNext == MonitorStart \/ HandleMessage \/ BotGet \/ ExecuteReturn \/ ExecuteRaise

SpecMonitor == MonitorInit /\ [][MonitorNext]_vars

-----------------------------------------------------------------------------
(* Claims about the running monitor and the consumer loop *)

StepPairs(c) == {structured_cycles[c].steps[i].pair : i \in 1..Len(structured_cycles[c].steps)}

CycleRefs == 1..Len(structured_cycles)

CycleComplete(c, prices) == StepPairs(c) \subseteq DOMAIN prices

\* the cycles the frame for a pair makes the handler recompute
Triggered(pair) == IF pair \in DOMAIN pair_to_cycles THEN Range(pair_to_cycles[pair]) ELSE {}

\* the entry of a cycle in a profit map, <<>> when it has none
ProfitEntry(profits, c) ==
    IF cycle_str(structured_cycles[c]) \in DOMAIN profits
    THEN <<profits[cycle_str(structured_cycles[c])]>> ELSE <<>>

\* the computations whose profit exceeded the threshold, in the order made
ProfitableComputations ==
    SelectSeq(debug_log, LAMBDA e : RatGreater(e.profit_pct, min_profit_threshold))

\* C6: every computed profit is published (appended to the profit log and,
\* when a queue is attached, enqueued exactly once) if and only if it is
\* strictly greater than min_profit_threshold: the log entries, and the
\* opportunities put on the queue, are one for one the computations whose
\* profit exceeded the threshold, and nothing is enqueued without a queue.
C6_PublishedIffAboveThreshold ==
    /\ [i \in 1..Len(profits_txt) |->
            [cycle |-> profits_txt[i].cycle, profit_pct |-> profits_txt[i].profit_pct]]
       = ProfitableComputations
    /\ IF profitable_cycles_queue.attached
       THEN [i \in 1..Len(enqueued) |->
                [cycle |-> cycle_str(structured_cycles[enqueued[i].cycle]),
                 profit_pct |-> enqueued[i].profit_pct]]
            = ProfitableComputations
       ELSE enqueued = <<>>

\* a profit above the threshold has been published to the attached queue and
\* a profit equal to the threshold has been computed and not published
C6_Witness ==
    /\ profitable_cycles_queue.attached
    /\ Len(enqueued) >= 1
    /\ \E i \in 1..Len(debug_log) : debug_log[i].profit_pct = min_profit_threshold
    /\ Len(debug_log) > Len(enqueued)

\* the entries a handler appended to a log
Appended(old, new) == SubSeq(new, Len(old) + 1, Len(new))

\* C7: when a frame makes the handler recompute a cycle one of whose pairs has
\* no price, the cycle is skipped: its entry of latest_profits_by_cycle is
\* unchanged, nothing is published for it, no error ends the listener, and
\* the other cycles of the frame are computed from the new prices.
C7_IncompleteCycleSkipped ==
    [][ticks' = ticks + 1 =>
        /\ listeners_alive' = listeners_alive
        /\ \A c \in Triggered(message'.s) :
             IF CycleComplete(c, latest_prices')
             THEN ProfitEntry(latest_profits_by_cycle', c) =
                    <<calculate_profit(structured_cycles[c], latest_prices',
                                       symbols_info, trade_fees).value>>
             ELSE /\ ProfitEntry(latest_profits_by_cycle', c)
                       = ProfitEntry(latest_profits_by_cycle, c)
                  /\ \A e \in Range(Appended(profits_txt, profits_txt')) :
                        e.cycle # cycle_str(structured_cycles[c])
                  /\ \A e \in Range(Appended(enqueued, enqueued')) : e.cycle # c
                  /\ \A e \in Range(Appended(debug_log, debug_log')) :
                        e.cycle # cycle_str(structured_cycles[c])
    ]_vars

\* the last frame made the handler recompute a cycle that lacks a price and
\* one that has all its prices; the first has no profit, the second has one,
\* and the listeners are all alive
C7_Witness ==
    /\ ticks >= 1
    /\ listeners_alive = DOMAIN pair_chunks(all_trade_pairs)
    /\ \E c1, c2 \in Triggered(message.s) :
         /\ ~CycleComplete(c1, latest_prices)
         /\ ProfitEntry(latest_profits_by_cycle, c1) = <<>>
         /\ CycleComplete(c2, latest_prices)
         /\ ProfitEntry(latest_profits_by_cycle, c2) # <<>>

\* C8: the key set of the price snapshot of every published opportunity is
\* exactly the set of the pairs of its cycle's steps.
C8_SnapshotKeysAreCyclePairs ==
    /\ \A i \in 1..Len(enqueued) :
          DOMAIN enqueued[i].prices = StepPairs(enqueued[i].cycle)
    /\ \A i \in 1..Len(profits_txt) :
          \E c \in CycleRefs :
             /\ profits_txt[i].cycle = cycle_str(structured_cycles[c])
             /\ DOMAIN profits_txt[i].prices = StepPairs(c)

\* an opportunity has been enqueued while the price map holds a pair that its
\* cycle does not reference
C8_Witness ==
    /\ Len(enqueued) >= 1
    /\ \E p \in DOMAIN latest_prices : p \notin StepPairs(enqueued[Len(enqueued)].cycle)

\* C9: latest_profits_by_cycle is determined by the price map and by the set
\* of pairs that had a frame, whatever the order in which the connections
\* delivered the frames: a cycle has an entry exactly when one of its pairs
\* had a frame and all its pairs have a price, and the entry is the profit of
\* the cycle on the present prices.  Two interleavings of the same frames
\* that end with the same price map therefore end with the same profit map.
C9_ProfitsDeterminedByPrices ==
    /\ \A c \in CycleRefs :
         ProfitEntry(latest_profits_by_cycle, c) =
            IF StepPairs(c) \cap received # {} /\ CycleComplete(c, latest_prices)
            THEN <<calculate_profit(structured_cycles[c], latest_prices,
                                    symbols_info, trade_fees).value>>
            ELSE <<>>
    /\ DOMAIN latest_profits_by_cycle \subseteq
          {cycle_str(structured_cycles[c]) : c \in CycleRefs}

\* frames of two connections have been handled and a profit is stored
C9_Witness ==
    /\ \E l1, l2 \in DOMAIN pair_chunks(all_trade_pairs) :
         /\ l1 # l2
         /\ Range(pair_chunks(all_trade_pairs)[l1]) \cap received # {}
         /\ Range(pair_chunks(all_trade_pairs)[l2]) \cap received # {}
    /\ ticks >= 3
    /\ latest_profits_by_cycle # EmptyMap

\* the opportunities execute_cycle was called on, in the order of the calls
Executed ==
    LET calls == SelectSeq(exec_log, LAMBDA e : e.event = "call")
    IN [i \in 1..Len(calls) |-> calls[i].opp]

\* C10: the opportunities passed to execute_cycle are, in order and each
\* once, the first opportunities that were put on the queue, and a call of
\* execute_cycle begins only after the call before it has returned.
C10_FifoOneAtATime ==
    /\ Len(Executed) <= Len(enqueued)
    /\ Executed = SubSeq(enqueued, 1, Len(Executed))
    /\ \A i, j \in 1..Len(enqueued) : i # j => enqueued[i] # enqueued[j]
    /\ \A i \in 1..Len(exec_log) :
         IF i % 2 = 1
         THEN exec_log[i].event = "call"
         ELSE /\ exec_log[i].opp = exec_log[i - 1].opp
              /\ \/ exec_log[i].event = "return"
                 \/ exec_log[i].event = "raise" /\ i = Len(exec_log)

\* a second opportunity is being executed after the first returned, while a
\* third one waits on the queue
C10_Witness ==
    /\ Len(exec_log) = 3
    /\ exec_log[2].event = "return"
    /\ exec_log[3].opp = enqueued[2]
    /\ Len(enqueued) >= 3

-----------------------------------------------------------------------------
(* common/binance_client.py: BinanceClient.__init__ and get_spot_balance.    *)
(* The exchange answers a request with "ok" or with an exception:            *)
(* requests' ConnectionError (a transport error, which python-binance lets   *)
(* through), BinanceAPIException or BinanceRequestException.                 *)

ApiOutcomes == {"ok", "ConnectionError", "BinanceAPIException", "BinanceRequestException"}

\* except (BinanceAPIException, BinanceRequestException)
BinanceErrors == {"BinanceAPIException", "BinanceRequestException"}

\* the try/except of a wrapper around the answer to its one request:
\* __init__ (lines 33-41) re-raises, get_spot_balance (lines 52-63) returns []
api_settle(method, outcome) ==
    IF outcome = "ok"
    THEN [pc |-> "returned",
          result |-> IF method = "__init__" THEN "client" ELSE "balances"]
    ELSE IF outcome \in BinanceErrors
    THEN IF method = "__init__"
         THEN [pc |-> "raised", result |-> outcome]
         ELSE [pc |-> "returned", result |-> "[]"]
    ELSE [pc |-> "raised", result |-> outcome]

\* every sequence of at most n answers
RECURSIVE OutcomeSeqs(_)
OutcomeSeqs(n) ==
    IF n = 0 THEN {<<>>}
    ELSE LET shorter == OutcomeSeqs(n - 1)
         IN shorter \cup {Append(s, o) : s \in {x \in shorter : Len(x) = n - 1},
                                         o \in ApiOutcomes}

AdapterInit ==
    /\ api_method \in {"__init__", "get_spot_balance"}
    /\ api_outcomes \in OutcomeSeqs(MaxAnswers)
    /\ api_attempts = 0
    /\ api_pc = "calling"
    /\ api_result = "none"
    /\ CoreIdle /\ SizingIdle /\ ExecutorIdle /\ LateIdle

\* self.client.ping() (line 36), self.client.get_account() (line 53)
AdapterRequest ==
    /\ api_pc = "calling"
    /\ api_attempts < Len(api_outcomes)
    /\ api_attempts' = api_attempts + 1
    /\ api_pc' = "requested"
    /\ UNCHANGED <<notAdapterVars, api_method, api_outcomes, api_result>>

\* the request is answered and the wrapper returns or raises
AdapterSettle ==
    /\ api_pc = "requested"
    /\ LET r == api_settle(api_method, api_outcomes[api_attempts])
       IN /\ api_pc' = r.pc
          /\ api_result' = r.result
    /\ UNCHANGED <<notAdapterVars, api_method, api_outcomes, api_attempts>>

AdapterNext == AdapterRequest \/ AdapterSettle

SpecAdapter == AdapterInit /\ [][AdapterNext]_vars

\* the position of the first "ok" among the answers from the i-th on, 0 when
\* there is none
RECURSIVE FirstOk(_, _)
FirstOk(answers, i) ==
    IF i > Len(answers) THEN 0
    ELSE IF answers[i] = "ok" THEN i ELSE FirstOk(answers, i + 1)

\* C11: a call whose requests fail with a transport error is re-attempted.
\* For a call that has ended and whose StatedAttempts first answers are each
\* "ok" or a transport error: if the k-th of them is the first success, the
\* call returned that result after exactly k requests; if none is, the call
\* raised after exactly StatedAttempts requests.
C11_RetriedUpToFiveTimes ==
    (/\ api_pc \in {"returned", "raised"}
     /\ Len(api_outcomes) >= StatedAttempts
     /\ \A i \in 1..StatedAttempts : api_outcomes[i] \in {"ok", "ConnectionError"})
    => LET k == FirstOk(SubSeq(api_outcomes, 1, StatedAttempts), 1)
       IN IF k > 0
          THEN /\ api_pc = "returned"
               /\ api_result = (IF api_method = "__init__" THEN "client" ELSE "balances")
               /\ api_attempts = k
          ELSE /\ api_pc = "raised"
               /\ api_attempts = StatedAttempts

-----------------------------------------------------------------------------
(* bot.py: TradeExecutor._find_optimal_investment_amount and the sizing of   *)
(* the first leg in execute_cycle (lines 254-263).                           *)
(* The levels drawn keep every sum, product and quotient within 15 digits,   *)
(* except the slippage relative to a top price that does not divide the      *)
(* difference; such a slippage is never within 10^-13 of the cap, so the     *)
(* rounded Decimal and the exact rational compare alike with the cap.        *)

RatAdd(x, y) == Norm(x[1] * y[2] + y[1] * x[2], x[2] * y[2])

\* min(x, y) on Decimals; the first argument is returned on a tie
RatMin(x, y) == IF RatGreater(x, y) THEN y ELSE x

\* Decimal(s) for the strings of an order book level
DecimalOfLevel(s) ==
    CASE s = "9.98" -> <<499, 50>>
      [] s = "9.99" -> <<999, 100>>
      [] s = "10" -> <<10, 1>>
      [] s = "10.005" -> <<2001, 200>>
      [] s = "10.01" -> <<1001, 100>>
      [] s = "10.02" -> <<501, 50>>
      [] s = "1" -> <<1, 1>>
      [] s = "20" -> <<20, 1>>

\* lines 124 and 140: the slippage of a level relative to the first price
slippage_of(side, price, first_price) ==
    IF side = "BUY"
    THEN RatMul(RatDiv(RatSub(price, first_price), first_price), Hundred)
    ELSE RatMul(RatDiv(RatSub(first_price, price), first_price), Hundred)

\* lines 115 and 132: the levels the walk reads
levels_of(order_book, side) == IF side = "BUY" THEN order_book.asks ELSE order_book.bids

\* a plausible slip: the cap test written with >=, refusing a level whose
\* slippage is exactly the cap
size_level_exclusive(side, level, first_price, cap, total_amount, total_cost) ==
    LET price == DecimalOfLevel(level[1])
        qty == DecimalOfLevel(level[2])
    IN IF ~RatGreater(cap, slippage_of(side, price, first_price))
       THEN [break |-> TRUE, total_amount |-> total_amount, total_cost |-> total_cost]
       ELSE [break |-> FALSE, total_amount |-> RatAdd(total_amount, qty),
             total_cost |-> RatAdd(total_cost, RatMul(qty, price))]

\* one iteration of the for loop (lines 120-129, 136-145)
size_level(side, level, first_price, cap, total_amount, total_cost) ==
    LET price == DecimalOfLevel(level[1])
        qty == DecimalOfLevel(level[2])
    IN IF RatGreater(slippage_of(side, price, first_price), cap)
       THEN [break |-> TRUE, total_amount |-> total_amount, total_cost |-> total_cost]
       ELSE [break |-> FALSE, total_amount |-> RatAdd(total_amount, qty),
             total_cost |-> RatAdd(total_cost, RatMul(qty, price))]

\* the strings of the levels: asks at and above 10, bids at and below 10
AskLevels == { <<"10", "1">>, <<"10.005", "1">>, <<"10.01", "1">>, <<"10.02", "20">> }
BidLevels == { <<"10", "1">>, <<"9.99", "20">>, <<"9.98", "1">> }

\* every list of at most n levels
RECURSIVE LevelSeqs(_, _)
LevelSeqs(levels, n) ==
    IF n = 0 THEN {<<>>}
    ELSE LET shorter == LevelSeqs(levels, n - 1)
         IN shorter \cup {Append(s, l) : s \in {x \in shorter : Len(x) = n - 1},
                                         l \in levels}

OrderBooks ==
    [bids : LevelSeqs(BidLevels, MaxLevels), asks : LevelSeqs(AskLevels, MaxLevels)]

\* the call of line 261 on a first-leg order book and side
SizingInit ==
    /\ initial_investment \in {<<15, 1>>, <<25, 1>>}
    /\ max_slippage_pct = <<1, 10>>
    /\ sz_order_book \in OrderBooks
    /\ sz_side \in {"BUY", "SELL"}
    /\ sz_i = 1
    /\ sz_total_amount = Zero
    /\ sz_total_cost = Zero
    /\ sz_pc = "walk"
    /\ sz_optimal = Zero
    /\ current_amount = Zero
    /\ CoreIdle /\ AdapterIdle /\ ExecutorIdle /\ LateIdle

\* one level is read: it is added to the totals, or the walk breaks
SizeLevel ==
    /\ sz_pc = "walk"
    /\ sz_i <= Len(levels_of(sz_order_book, sz_side))
    /\ LET levels == levels_of(sz_order_book, sz_side)
           r == size_level(sz_side, levels[sz_i], DecimalOfLevel(levels[1][1]),
                           max_slippage_pct, sz_total_amount, sz_total_cost)
       IN /\ sz_total_amount' = r.total_amount
          /\ sz_total_cost' = r.total_cost
          /\ sz_i' = IF r.break THEN Len(levels) + 1 ELSE sz_i + 1
    /\ UNCHANGED <<notSizingVars, initial_investment, max_slippage_pct, sz_order_book,
                   sz_side, sz_pc, sz_optimal, current_amount>>

\* lines 116, 133 and 149: the value returned
SizeReturn ==
    /\ sz_pc = "walk"
    /\ sz_i > Len(levels_of(sz_order_book, sz_side))
    /\ sz_optimal' = IF sz_side = "BUY" THEN sz_total_cost ELSE sz_total_amount
    /\ sz_pc' = "returned"
    /\ UNCHANGED <<notSizingVars, initial_investment, max_slippage_pct, sz_order_book,
                   sz_side, sz_i, sz_total_amount, sz_total_cost, current_amount>>

\* line 263: current_amount = min(self.initial_investment, optimal_investment)
SizeStart ==
    /\ sz_pc = "returned"
    /\ current_amount' = RatMin(initial_investment, sz_optimal)
    /\ sz_pc' = "sized"
    /\ UNCHANGED <<notSizingVars, initial_investment, max_slippage_pct, sz_order_book,
                   sz_side, sz_i, sz_total_amount, sz_total_cost, sz_optimal>>

SizingNext == SizeLevel \/ SizeReturn \/ SizeStart

SpecSizing == SizingInit /\ [][SizingNext]_vars

\* the slippage of the i-th level of the walked side is within the cap
WithinCap(i) ==
    LET levels == levels_of(sz_order_book, sz_side)
    IN ~RatGreater(slippage_of(sz_side, DecimalOfLevel(levels[i][1]),
                               DecimalOfLevel(levels[1][1])),
                   max_slippage_pct)

\* the length of the maximal prefix of levels that are all within the cap
AcceptedPrefix ==
    LET levels == levels_of(sz_order_book, sz_side)
    IN CHOOSE n \in 0..Len(levels) :
          /\ \A i \in 1..n : WithinCap(i)
          /\ n < Len(levels) => ~WithinCap(n + 1)

\* the sum of qty*price (BUY) or of qty (SELL) over the first n levels
RECURSIVE PrefixSum(_)
PrefixSum(n) ==
    IF n = 0 THEN Zero
    ELSE LET l == levels_of(sz_order_book, sz_side)[n]
         IN RatAdd(PrefixSum(n - 1),
                   IF sz_side = "BUY"
                   THEN RatMul(DecimalOfLevel(l[2]), DecimalOfLevel(l[1]))
                   ELSE DecimalOfLevel(l[2]))

-----------------------------------------------------------------------------
(* bot.py: TradeExecutor.execute_cycle.  client.get_tickers_for_symbols and  *)
(* client.get_order_book are called but not defined under src/; what they    *)
(* answer is taken from the interface of the exchange adapter: a list of     *)
(* 24h tickers with a quote volume each, and an order book or nothing.       *)

\* the whole of _find_optimal_investment_amount, from the i-th level on
RECURSIVE optimal_from(_, _, _, _, _, _)
optimal_from(side, levels, i, cap, total_amount, total_cost) ==
    IF i > Len(levels)
    THEN IF side = "BUY" THEN total_cost ELSE total_amount
    ELSE LET r == size_level(side, levels[i], DecimalOfLevel(levels[1][1]), cap,
                             total_amount, total_cost)
         IN IF r.break
            THEN IF side = "BUY" THEN total_cost ELSE total_amount
            ELSE optimal_from(side, levels, i + 1, cap, r.total_amount, r.total_cost)

find_optimal_investment_amount(order_book, side, cap) ==
    optimal_from(side, levels_of(order_book, side), 1, cap, Zero, Zero)

\* x >= y on Decimals
RatGeq(x, y) == ~RatGreater(y, x)

\* the for loop of _calculate_execution_price (lines 174-191, 200-214) from
\* the i-th level on; spent and filled are total_spent and total_filled
RECURSIVE execution_walk(_, _, _, _, _, _)
execution_walk(side, levels, i, remaining, spent, filled) ==
    IF i > Len(levels) THEN [spent |-> spent, filled |-> filled]
    ELSE LET price == DecimalOfLevel(levels[i][1])
             qty == DecimalOfLevel(levels[i][2])
         IN IF side = "BUY"
            THEN LET cost_of_level == RatMul(price, qty)
                 IN IF RatGeq(remaining, cost_of_level)
                    THEN execution_walk(side, levels, i + 1,
                                        RatSub(remaining, cost_of_level),
                                        RatAdd(spent, cost_of_level), RatAdd(filled, qty))
                    ELSE [spent |-> RatAdd(spent, remaining),
                          filled |-> RatAdd(filled, RatDiv(remaining, price))]
            ELSE IF RatGeq(remaining, qty)
                 THEN execution_walk(side, levels, i + 1, RatSub(remaining, qty),
                                     RatAdd(spent, qty), RatAdd(filled, RatMul(qty, price)))
                 ELSE [spent |-> RatAdd(spent, remaining),
                       filled |-> RatAdd(filled, RatMul(remaining, price))]

\* _calculate_execution_price (lines 151-220): [ok, avg_price, filled];
\* ok is FALSE for the answer (None, None)
calculate_execution_price(order_book, side, amount_to_trade) ==
    LET w == execution_walk(side, levels_of(order_book, side), 1, amount_to_trade,
                            Zero, Zero)
    IN IF side = "BUY"
       THEN IF w.filled = Zero THEN [ok |-> FALSE, avg_price |-> Zero, filled |-> Zero]
            ELSE [ok |-> TRUE, avg_price |-> RatDiv(w.spent, w.filled), filled |-> w.filled]
       ELSE IF w.spent = Zero THEN [ok |-> FALSE, avg_price |-> Zero, filled |-> Zero]
            ELSE [ok |-> TRUE, avg_price |-> RatDiv(w.filled, w.spent), filled |-> w.filled]

\* line 260: the side of the first leg
first_side_of(step, info) ==
    IF step.from = info[step.pair].quoteAsset THEN "BUY" ELSE "SELL"

\* a plausible slip: the side of a leg decided as that of the first leg is,
\* from the from-asset alone
leg_side_from_only(step, pair_info) ==
    IF step.from = pair_info.quoteAsset THEN "BUY" ELSE "SELL"

\* lines 292-300: the side of a leg, "None" when it cannot be determined
leg_side(step, pair_info) ==
    IF step.from = pair_info.quoteAsset /\ step.to = pair_info.baseAsset THEN "BUY"
    ELSE IF step.from = pair_info.baseAsset /\ step.to = pair_info.quoteAsset THEN "SELL"
    ELSE "None"

\* config.min_trade_volume_usd (config.py line 39)
min_volume_threshold == <<100000, 1>>

\* Decimal(ticker.get('quoteVolume', '0'))
DecimalOfVolume(s) ==
    CASE s = "0" -> <<0, 1>>
      [] s = "10" -> <<10, 1>>
      [] s = "50000" -> <<50000, 1>>
      [] s = "100000" -> <<100000, 1>>
      [] s = "250000" -> <<250000, 1>>
      [] s = "500000" -> <<500000, 1>>
      [] s = "1000000" -> <<1000000, 1>>

\* a plausible slip: the number of tickers is not compared with the number
\* of pairs
liquidity_ok_any_count(tickers, pairs_in_cycle) ==
    /\ tickers # <<>>
    /\ \A i \in 1..Len(tickers) :
          ~RatGreater(min_volume_threshold, DecimalOfVolume(tickers[i].quoteVolume))

\* lines 240-248: TRUE when the cycle passes the liquidity check
liquidity_ok(tickers, pairs_in_cycle) ==
    /\ tickers # <<>>
    /\ Len(tickers) = Len(pairs_in_cycle)
    /\ \A i \in 1..Len(tickers) :
          ~RatGreater(min_volume_threshold, DecimalOfVolume(tickers[i].quoteVolume))

\* the row csv.DictWriter.writeheader() writes
HeaderRow ==
    [header |-> TRUE, seq |-> 0, hour |-> 0, cycle |-> "", profit_pct |-> Zero,
     initial_asset |-> "", initial_amount |-> Zero,
     final_asset |-> "", final_amount |-> Zero]

\* a plausible slip: the header written on every call
log_to_csv_header_always(files, hour, row) ==
    IF hour \in DOMAIN files
    THEN [files EXCEPT ![hour] = @ \o <<HeaderRow, row>>]
    ELSE (hour :> <<HeaderRow, row>>) @@ files

\* _log_to_csv (lines 57-93): the row is appended to the file of the hour,
\* after the header when the file did not exist
log_to_csv(files, hour, row) ==
    IF hour \in DOMAIN files
    THEN [files EXCEPT ![hour] = Append(@, row)]
    ELSE (hour :> <<HeaderRow, row>>) @@ files

\* what get_tickers_for_symbols may answer for the pairs of a cycle: nothing,
\* a ticker short, every volume at the threshold, or the first volume below it
TickerAnswers(pairs) ==
    LET at == [i \in 1..Len(pairs) |-> [symbol |-> pairs[i], quoteVolume |-> "100000"]]
    IN { <<>>, SubSeq(at, 1, Len(pairs) - 1), at,
         [at EXCEPT ![1] = [symbol |-> pairs[1], quoteVolume |-> "50000"]] }

\* what get_order_book may answer: nothing, a book without levels, or a book
\* with one level a side
BookAnswers ==
    { [present |-> FALSE, book |-> NoBook],
      [present |-> TRUE, book |-> NoBook],
      [present |-> TRUE, book |-> [bids |-> << <<"10", "20">> >>,
                                   asks |-> << <<"10", "20">> >>]] }

\* every list of 1..n opportunities over the cycles, numbered as enqueued
OpportunityLists(n) ==
    LET refs == 1..Len(structured_cycles)
    IN UNION { [1..m -> refs] : m \in 1..n }

opportunity_of(c, i) ==
    [cycle |-> c, profit_pct |-> One,
     prices |-> [p \in {structured_cycles[c].steps[j].pair :
                          j \in 1..Len(structured_cycles[c].steps)} |->
                   [b |-> "2", a |-> "1.00"]],
     seq |-> i]

ExecutorInit ==
    /\ \E k \in 3..NumSymbols :
         LET listing == TradingListing(k)
             info == exchange_info_map(listing)
             r == structure_cycles_and_get_pairs(CyclesOfListing(listing), info)
         IN /\ symbols_info = info
            /\ executor_info = info
            /\ structured_cycles = r.structured_cycles
            /\ all_trade_pairs = r.all_pairs
            /\ pair_to_cycles = map_pairs(r.structured_cycles, 1, EmptyMap)
    /\ monitor_pc = "running"
    \* the monitor has put these opportunities on the queue
    /\ \E l \in OpportunityLists(MaxOpps) :
         /\ enqueued = [i \in 1..Len(l) |-> opportunity_of(l[i], i)]
         /\ profitable_cycles_queue = [attached |-> TRUE, items |-> enqueued]
    /\ trade_fees = EmptyMap
    /\ min_profit_threshold = Zero
    /\ latest_prices = EmptyMap
    /\ latest_profits_by_cycle = EmptyMap
    /\ message = NoMessage
    /\ debug_log = <<>>
    /\ profits_txt = <<>>
    /\ received = {}
    /\ listeners_alive = {}
    /\ ticks = 0
    /\ bot_pc = "waiting"
    /\ bot_current = NoOpportunity
    /\ exec_log = <<>>
    /\ initial_investment \in {<<15, 1>>, <<250, 1>>}
    /\ max_slippage_pct = <<1, 10>>
    /\ current_amount = Zero
    /\ sz_order_book = NoBook /\ sz_side = "BUY" /\ sz_i = 0
    /\ sz_total_amount = Zero /\ sz_total_cost = Zero
    /\ sz_pc = "idle" /\ sz_optimal = Zero
    /\ ex_pc = "idle"
    /\ ex_leg = 0
    /\ current_asset = ""
    /\ ex_books = <<>>
    /\ ex_tickers = <<>>
    /\ ex_done = <<>>
    /\ trades_csv = EmptyMap
    /\ clock_hour = 1
    /\ FinderIdle /\ RunIdle /\ ProfitIdle /\ AdapterIdle /\ LateIdle

\* what no action of the executor changes
executorFrame ==
    <<finderVars, runVars, setupVars, feeVars, profitVars, adapterVars, szWalkVars, lateVars,
      latest_prices, latest_profits_by_cycle, message, debug_log, profits_txt,
      enqueued, received, listeners_alive, ticks, executor_info,
      initial_investment, max_slippage_pct>>

\* execute_cycle returns (lines 242, 248, 258, 279, 285, 290, 304, 311, 337)
\* and the loop calls task_done() and get() again (bot.py lines 405-409)
ExecFinish(outcome, books) ==
    /\ exec_log' = Append(exec_log, [event |-> "return", opp |-> bot_current])
    /\ ex_done' = Append(ex_done, [seq |-> bot_current.seq, cycle |-> bot_current.cycle,
                                   outcome |-> outcome, books |-> books,
                                   hour |-> clock_hour])
    /\ bot_pc' = "waiting"
    /\ ex_pc' = "idle"

\* bot.py lines 405-407 and 230-238: an opportunity is taken and execute_cycle
\* asks for the tickers of its pairs
ExecGet ==
    /\ bot_pc = "waiting"
    /\ profitable_cycles_queue.items # <<>>
    /\ LET r == queue_get(profitable_cycles_queue.items)
       IN /\ BeginExecute(r)
          /\ exec_log' = Append(exec_log, [event |-> "call", opp |-> r.item])
    /\ ex_pc' = "tickers"
    /\ ex_books' = <<>>
    /\ UNCHANGED <<executorFrame, current_amount, current_asset, ex_leg, ex_tickers, ex_done,
                   trades_csv, clock_hour>>

\* lines 238-250: the liquidity check
ExecLiquidity ==
    /\ ex_pc = "tickers"
    /\ LET steps == structured_cycles[bot_current.cycle].steps
           pairs_in_cycle == [i \in 1..Len(steps) |-> steps[i].pair]
       IN \E tickers \in TickerAnswers(pairs_in_cycle) :
            /\ ex_tickers' = tickers
            /\ IF liquidity_ok(tickers, pairs_in_cycle)
               THEN /\ ex_pc' = "sizing"
                    /\ UNCHANGED <<exec_log, ex_done, bot_pc>>
               ELSE ExecFinish("skipped", ex_books)
    /\ UNCHANGED <<executorFrame, profitable_cycles_queue, bot_current, current_amount,
                   current_asset, ex_leg, ex_books, trades_csv, clock_hour>>

\* lines 254-269: the first order book is fetched and the first leg sized
ExecSize ==
    /\ ex_pc = "sizing"
    /\ LET first_step == structured_cycles[bot_current.cycle].steps[1]
       IN \E answer \in BookAnswers :
            /\ ex_books' = Append(ex_books, [leg |-> 0, present |-> answer.present,
                                             book |-> answer.book])
            /\ IF ~answer.present
               THEN /\ ExecFinish("aborted", ex_books')
                    /\ UNCHANGED <<current_amount, current_asset, ex_leg>>
               ELSE /\ current_amount' =
                         RatMin(initial_investment,
                                find_optimal_investment_amount(
                                    answer.book, first_side_of(first_step, executor_info),
                                    max_slippage_pct))
                    /\ current_asset' = first_step.from
                    /\ ex_leg' = 1
                    /\ ex_pc' = "leg"
                    /\ UNCHANGED <<exec_log, ex_done, bot_pc>>
    /\ UNCHANGED <<executorFrame, profitable_cycles_queue, bot_current, trades_csv,
                   clock_hour, ex_tickers>>

\* lines 272-321: one iteration of the for loop over the steps
ExecLeg ==
    /\ ex_pc = "leg"
    /\ LET steps == structured_cycles[bot_current.cycle].steps
           step == steps[ex_leg]
       IN IF current_asset # step.from
          THEN /\ ExecFinish("aborted", ex_books)
               /\ UNCHANGED <<current_amount, current_asset, ex_leg, ex_books>>
          ELSE \E answer \in BookAnswers :
            /\ ex_books' = Append(ex_books, [leg |-> ex_leg, present |-> answer.present,
                                             book |-> answer.book])
            /\ LET side == IF step.pair \in DOMAIN executor_info
                           THEN leg_side(step, executor_info[step.pair]) ELSE "None"
                   fill == IF side = "None"
                           THEN [ok |-> FALSE, avg_price |-> Zero, filled |-> Zero]
                           ELSE calculate_execution_price(answer.book, side, current_amount)
               IN IF ~answer.present \/ side = "None" \/ ~fill.ok
                  THEN /\ ExecFinish("aborted", ex_books')
                       /\ UNCHANGED <<current_amount, current_asset, ex_leg>>
                  ELSE /\ current_amount' = fill.filled
                       /\ current_asset' = step.to
                       /\ ex_leg' = ex_leg + 1
                       /\ ex_pc' = IF ex_leg = Len(steps) THEN "log" ELSE "leg"
                       /\ UNCHANGED <<exec_log, ex_done, bot_pc>>
    /\ UNCHANGED <<executorFrame, profitable_cycles_queue, bot_current, trades_csv,
                   clock_hour, ex_tickers>>

\* a variant: the record holds the amount the first leg was sized to
ExecLogSizedAmount ==
    /\ ex_pc = "log"
    /\ LET cycle == structured_cycles[bot_current.cycle]
           row == [header |-> FALSE, seq |-> bot_current.seq, hour |-> clock_hour,
                   cycle |-> cycle_str(cycle), profit_pct |-> bot_current.profit_pct,
                   initial_asset |-> cycle.steps[1].from,
                   initial_amount |->
                       RatMin(initial_investment,
                              find_optimal_investment_amount(
                                  ex_books[1].book,
                                  first_side_of(cycle.steps[1], executor_info),
                                  max_slippage_pct)),
                   final_asset |-> current_asset, final_amount |-> current_amount]
       IN trades_csv' = log_to_csv(trades_csv, clock_hour, row)
    /\ ExecFinish("completed", ex_books)
    /\ UNCHANGED <<executorFrame, profitable_cycles_queue, bot_current, current_amount,
                   current_asset, ex_leg, ex_books, ex_tickers, clock_hour>>

\* lines 323-337: the record of the simulation is appended to the CSV file
ExecLog ==
    /\ ex_pc = "log"
    /\ LET cycle == structured_cycles[bot_current.cycle]
           row == [header |-> FALSE, seq |-> bot_current.seq, hour |-> clock_hour,
                   cycle |-> cycle_str(cycle), profit_pct |-> bot_current.profit_pct,
                   initial_asset |-> cycle.steps[1].from,
                   initial_amount |-> initial_investment,
                   final_asset |-> current_asset, final_amount |-> current_amount]
       IN trades_csv' = log_to_csv(trades_csv, clock_hour, row)
    /\ ExecFinish("completed", ex_books)
    /\ UNCHANGED <<executorFrame, profitable_cycles_queue, bot_current, current_amount,
                   current_asset, ex_leg, ex_books, ex_tickers, clock_hour>>

\* the hour changes
ClockTick ==
    /\ clock_hour < MaxHours
    /\ clock_hour' = clock_hour + 1
    /\ UNCHANGED <<executorFrame, botVars, profitable_cycles_queue, current_amount,
                   current_asset, ex_pc, ex_leg, ex_books, ex_tickers, ex_done, trades_csv>>

ExecutorNext == ExecGet \/ ExecLiquidity \/ ExecSize \/ ExecLeg \/ ExecLog \/ ClockTick

SpecExecutor == ExecutorInit /\ [][ExecutorNext]_vars

\* the steps of the cycle a finished call was made on
DoneSteps(e) == structured_cycles[e.cycle].steps

\* the direction of a step cannot be determined from the pair's assets
DirectionUndefined(step) ==
    \/ step.pair \notin DOMAIN executor_info
    \/ {step.from, step.to} # {executor_info[step.pair].baseAsset,
                               executor_info[step.pair].quoteAsset}

\* the side of the book a step trades against
NeededLevels(step, book) ==
    IF step.from = executor_info[step.pair].quoteAsset THEN book.asks ELSE book.bids

\* a fetch of the call answered nothing, or a book without levels on the
\* needed side, or was made for a leg whose direction is undefined
FaultyCall(e) ==
    \E i \in 1..Len(e.books) :
       LET f == e.books[i]
           step == DoneSteps(e)[IF f.leg = 0 THEN 1 ELSE f.leg]
       IN \/ ~f.present
          \/ f.leg > 0 /\ DirectionUndefined(step)
          \/ ~DirectionUndefined(step) /\ NeededLevels(step, f.book) = <<>>

\* the data rows of all the CSV files
DataRows == UNION { {trades_csv[h][i] : i \in 1..Len(trades_csv[h])} \ {HeaderRow} :
                    h \in DOMAIN trades_csv }

\* C13: a call of execute_cycle in which a leg's order book is missing or has
\* no levels on the needed side, or a leg's direction is undefined, returns
\* without appending a record, and the consumer loop stays alive: it never
\* stops, every call has returned rather than raised, and when the loop
\* waits on the empty queue every opportunity enqueued has been executed.
C13_FaultyLegAbortsOnlyItsCycle ==
    /\ \A i \in 1..Len(ex_done) :
          FaultyCall(ex_done[i]) =>
             /\ ex_done[i].outcome = "aborted"
             /\ \A r \in DataRows : r.seq # ex_done[i].seq
    /\ bot_pc \in {"waiting", "executing"}
    /\ \A i \in 1..Len(exec_log) : exec_log[i].event \in {"call", "return"}
    /\ (bot_pc = "waiting" /\ profitable_cycles_queue.items = <<>>)
          => [i \in 1..Len(ex_done) |-> ex_done[i].seq] = [i \in 1..Len(enqueued) |-> i]

\* a call aborted on a leg whose direction is undefined, and the opportunity
\* enqueued after it was executed and recorded
C13_Witness ==
    /\ Len(ex_done) = 2
    /\ FaultyCall(ex_done[1])
    /\ \E i \in 1..Len(ex_done[1].books) :
          /\ ex_done[1].books[i].leg > 0
          /\ ex_done[1].books[i].present
          /\ DirectionUndefined(DoneSteps(ex_done[1])[ex_done[1].books[i].leg])
    /\ ex_done[2].outcome = "completed"
    /\ \E r \in DataRows : r.seq = 2

\* the calls that completed all legs during hour h, in the order they returned
CompletedIn(h) ==
    SelectSeq(ex_done, LAMBDA e : e.outcome = "completed" /\ e.hour = h)

\* the file of an hour holds the header once, first, and then one data row
\* for each call completed in that hour; an hour without one has no file
FileAsStated(h) ==
    LET done == CompletedIn(h)
    IN IF h \in DOMAIN trades_csv
       THEN LET f == trades_csv[h]
            IN /\ Len(f) = Len(done) + 1
               /\ f[1] = HeaderRow
               /\ \A i \in 1..Len(done) :
                     /\ ~f[i + 1].header
                     /\ f[i + 1].seq = done[i].seq
                     /\ f[i + 1].hour = h
                     /\ f[i + 1].cycle = cycle_str(structured_cycles[done[i].cycle])
       ELSE done = <<>>

\* a step leaves every row already written where it was
AppendOnly ==
    \A h \in DOMAIN trades_csv :
       /\ h \in DOMAIN trades_csv'
       /\ Len(trades_csv'[h]) >= Len(trades_csv[h])
       /\ SubSeq(trades_csv'[h], 1, Len(trades_csv[h])) = trades_csv[h]

-----------------------------------------------------------------------------
(* Specification SpecWhitelist: generate_whitelist on every small listing *)

\* config.whitelist_base_coins as the strategy configures it
base_coins == {"USDT", "BTC"}

\* Decimal(config.whitelist_min_volume_usd) (line 32, config.py line 44)
min_volume_usd == <<100000, 1>>

\* the symbols the exchange may list, in lexicographic order
WlNames == <<"AAA", "BBB", "CCC", "DDD", "EEE">>

LexRank(s) == CHOOSE i \in 1..Len(WlNames) : WlNames[i] = s

NoNotional == <<>>
SmallNotional ==
    << [filterType |-> "PRICE_FILTER", minNotional |-> "0"],
       [filterType |-> "NOTIONAL", minNotional |-> "10"] >>
LargeNotional ==
    << [filterType |-> "MIN_NOTIONAL", minNotional |-> "1000000"],
       [filterType |-> "NOTIONAL", minNotional |-> "10"] >>

\* what a listed symbol may look like: status, which of its assets is a base
\* coin, the quote volume of its ticker ("none": no ticker) and its filters
WlProfiles ==
    { [status |-> "TRADING", coin |-> "quote", volume |-> "100000", filters |-> NoNotional],
      [status |-> "TRADING", coin |-> "base", volume |-> "250000", filters |-> SmallNotional],
      [status |-> "TRADING", coin |-> "quote", volume |-> "250000", filters |-> LargeNotional],
      [status |-> "BREAK", coin |-> "quote", volume |-> "500000", filters |-> NoNotional],
      [status |-> "TRADING", coin |-> "none", volume |-> "500000", filters |-> NoNotional],
      [status |-> "TRADING", coin |-> "quote", volume |-> "none", filters |-> NoNotional],
      [status |-> "TRADING", coin |-> "quote", volume |-> "50000", filters |-> NoNotional] }

\* an element of exchange_info['symbols']
symbol_info_of(name, profile) ==
    [symbol |-> name,
     baseAsset |-> IF profile.coin = "base" THEN "BTC" ELSE name \o "1",
     quoteAsset |-> CASE profile.coin = "quote" -> "USDT"
                      [] profile.coin = "base" -> name \o "2"
                      [] OTHER -> "EUR",
     status |-> profile.status,
     filters |-> profile.filters]

\* the orders in which the exchange may list n symbols
Listings(n) ==
    { l \in [1..n -> {WlNames[i] : i \in 1..n}] : \A i, j \in 1..n : l[i] = l[j] => i = j }

\* line 50: ticker_map, the last ticker of a symbol winning
ticker_map_of(tickers) ==
    [s \in {tickers[i].symbol : i \in 1..Len(tickers)} |->
        tickers[CHOOSE i \in 1..Len(tickers) :
                   /\ tickers[i].symbol = s
                   /\ \A j \in (i + 1)..Len(tickers) : tickers[j].symbol # s]]

\* lines 78-82: the minNotional of the first MIN_NOTIONAL or NOTIONAL filter
min_notional_of(filters) ==
    LET hits == {i \in 1..Len(filters) :
                    filters[i].filterType \in {"MIN_NOTIONAL", "NOTIONAL"}}
    IN IF hits = {} THEN Zero
       ELSE DecimalOfVolume(filters[CHOOSE i \in hits : \A j \in hits : i <= j].minNotional)

\* a plausible slip: a volume equal to min_volume_usd rejected
passes_filters_strict(symbol_info, ticker_map) ==
    /\ symbol_info.status = "TRADING"
    /\ symbol_info.baseAsset \in base_coins \/ symbol_info.quoteAsset \in base_coins
    /\ symbol_info.symbol \in DOMAIN ticker_map
    /\ LET volume_usd == DecimalOfVolume(ticker_map[symbol_info.symbol].quoteVolume)
           min_notional == min_notional_of(symbol_info.filters)
       IN /\ RatGreater(volume_usd, min_volume_usd)
          /\ ~(RatGreater(min_notional, Zero) /\ RatGreater(min_notional, volume_usd))

\* lines 59-85: TRUE when no filter of the loop body skips the symbol
passes_filters(symbol_info, ticker_map) ==
    /\ symbol_info.status = "TRADING"
    /\ symbol_info.baseAsset \in base_coins \/ symbol_info.quoteAsset \in base_coins
    /\ symbol_info.symbol \in DOMAIN ticker_map
    /\ LET volume_usd == DecimalOfVolume(ticker_map[symbol_info.symbol].quoteVolume)
           min_notional == min_notional_of(symbol_info.filters)
       IN /\ ~RatGreater(min_volume_usd, volume_usd)
          /\ ~(RatGreater(min_notional, Zero) /\ RatGreater(min_notional, volume_usd))

\* sorted(..., key=quoteVolume, reverse=True) is stable: p goes behind every
\* pair whose volume is not smaller than its own
RECURSIVE insert_by_volume(_, _)
insert_by_volume(sorted, p) ==
    IF sorted = <<>> THEN <<p>>
    ELSE IF RatGreater(p.quoteVolume, Head(sorted).quoteVolume) THEN <<p>> \o sorted
         ELSE <<Head(sorted)>> \o insert_by_volume(Tail(sorted), p)

\* line 96
RECURSIVE sorted_by_volume(_)
sorted_by_volume(pairs) ==
    IF pairs = <<>> THEN <<>>
    ELSE insert_by_volume(sorted_by_volume(SubSeq(pairs, 1, Len(pairs) - 1)),
                          pairs[Len(pairs)])

\* line 97: sorted_pairs[:top_n_pairs]
top_pairs_of(pairs, n) == SubSeq(sorted_by_volume(pairs), 1, Min(n, Len(pairs)))

WhitelistInit ==
    /\ \/ /\ wl_exchange_info = [present |-> FALSE, symbols |-> <<>>]
          /\ wl_tickers = <<>>
       \/ \E l \in Listings(MaxListed) : \E profiles \in [1..MaxListed -> WlProfiles] :
            /\ wl_exchange_info =
                  [present |-> TRUE,
                   symbols |-> [i \in 1..MaxListed |-> symbol_info_of(l[i], profiles[i])]]
            /\ wl_tickers =
                  LET with == SelectSeq([i \in 1..MaxListed |-> i],
                                        LAMBDA i : profiles[i].volume # "none")
                  IN [k \in 1..Len(with) |->
                        [symbol |-> l[with[k]], quoteVolume |-> profiles[with[k]].volume]]
    /\ top_n_pairs \in {1, MaxListed - 1}
    /\ valid_pairs = <<>>
    /\ wl_i = 0
    /\ wl_pc = "start"
    /\ whitelist_file = [written |-> FALSE, whitelist_assets |-> {}, whitelist_pairs |-> {}]
    /\ CoreIdle /\ BaseExtIdle /\ CacheIdle /\ LifeIdle /\ RestIdle

\* lines 28-52: the data is fetched; without it nothing is generated
\* (base_coins is not empty, so line 35 does not return)
WlStart ==
    /\ wl_pc = "start"
    /\ IF ~wl_exchange_info.present \/ wl_tickers = <<>>
       THEN wl_pc' = "aborted" /\ wl_i' = wl_i
       ELSE wl_pc' = "filtering" /\ wl_i' = 1
    /\ UNCHANGED <<notWhitelistVars, wl_exchange_info, wl_tickers, top_n_pairs,
                   valid_pairs, whitelist_file>>

\* lines 54-93: one iteration of the loop over the symbols
WlFilter ==
    /\ wl_pc = "filtering"
    /\ wl_i <= Len(wl_exchange_info.symbols)
    /\ LET symbol_info == wl_exchange_info.symbols[wl_i]
           ticker_map == ticker_map_of(wl_tickers)
       IN valid_pairs' =
             IF passes_filters(symbol_info, ticker_map)
             THEN Append(valid_pairs,
                         [symbol |-> symbol_info.symbol,
                          baseAsset |-> symbol_info.baseAsset,
                          quoteAsset |-> symbol_info.quoteAsset,
                          quoteVolume |->
                             DecimalOfVolume(ticker_map[symbol_info.symbol].quoteVolume)])
             ELSE valid_pairs
    /\ wl_i' = wl_i + 1
    /\ UNCHANGED <<notWhitelistVars, wl_exchange_info, wl_tickers, top_n_pairs, wl_pc,
                   whitelist_file>>

\* lines 95-119: the candidates are sorted, the first top_n_pairs kept and
\* the lists saved (each written sorted, so a list is given as its set)
WlSave ==
    /\ wl_pc = "filtering"
    /\ wl_i > Len(wl_exchange_info.symbols)
    /\ LET top_pairs == top_pairs_of(valid_pairs, top_n_pairs)
           idx == 1..Len(top_pairs)
       IN whitelist_file' =
             [written |-> TRUE,
              whitelist_assets |-> base_coins \cup {top_pairs[i].baseAsset : i \in idx}
                                              \cup {top_pairs[i].quoteAsset : i \in idx},
              whitelist_pairs |-> {top_pairs[i].symbol : i \in idx}]
    /\ wl_pc' = "saved"
    /\ UNCHANGED <<notWhitelistVars, wl_exchange_info, wl_tickers, top_n_pairs,
                   valid_pairs, wl_i>>

WhitelistNext == WlStart \/ WlFilter \/ WlSave

SpecWhitelist == WhitelistInit /\ [][WhitelistNext]_vars

\* the quote volume of the ticker of a listed symbol
VolumeOf(s) ==
    DecimalOfVolume(wl_tickers[CHOOSE i \in 1..Len(wl_tickers) :
                                  wl_tickers[i].symbol = s.symbol].quoteVolume)

\* the candidates as stated: TRADING, an asset among the base coins, and a
\* ticker whose volume is below neither min_volume_usd nor the minimum notional
StatedCandidates ==
    LET listed == {wl_exchange_info.symbols[i] : i \in 1..Len(wl_exchange_info.symbols)}
    IN { s \in listed :
           /\ s.status = "TRADING"
           /\ {s.baseAsset, s.quoteAsset} \cap base_coins # {}
           /\ \E i \in 1..Len(wl_tickers) : wl_tickers[i].symbol = s.symbol
           /\ RatGeq(VolumeOf(s), min_volume_usd)
           /\ RatGeq(VolumeOf(s), min_notional_of(s.filters)) }

\* C15: the pairs written are the top_n_pairs candidates by quote volume: at
\* most N of them, as many as N and the candidates allow, each a candidate,
\* and no candidate left out has a strictly larger volume than one written.
C15_WhitelistIsTopNCandidates ==
    wl_pc = "saved" =>
       LET out == whitelist_file.whitelist_pairs
       IN /\ Cardinality(out) <= top_n_pairs
          /\ Cardinality(out) = Min(top_n_pairs, Cardinality(StatedCandidates))
          /\ \A p \in out : \E s \in StatedCandidates : s.symbol = p
          /\ \A s, r \in StatedCandidates :
                (s.symbol \notin out /\ r.symbol \in out)
                   => ~RatGreater(VolumeOf(s), VolumeOf(r))

\* a candidate with a volume of exactly min_volume_usd was written, and a
\* candidate was left out because of N
C15_Witness ==
    /\ wl_pc = "saved"
    /\ \E s \in StatedCandidates :
          s.symbol \in whitelist_file.whitelist_pairs /\ VolumeOf(s) = min_volume_usd
    /\ \E s \in StatedCandidates : s.symbol \notin whitelist_file.whitelist_pairs

\* s comes before r by descending volume, then by lexicographic symbol
StatedBefore(s, r) ==
    \/ RatGreater(VolumeOf(s), VolumeOf(r))
    \/ VolumeOf(s) = VolumeOf(r) /\ LexRank(s.symbol) < LexRank(r.symbol)

\* C16: the pairs written depend on the set of symbols and tickers only:
\* they are the first top_n_pairs candidates by descending volume, a tie
\* broken by lexicographic symbol order whatever the order of the listing.
C16_TiesBrokenBySymbol ==
    wl_pc = "saved" =>
       whitelist_file.whitelist_pairs =
          { s.symbol : s \in { c \in StatedCandidates :
                Cardinality({d \in StatedCandidates : StatedBefore(d, c)}) < top_n_pairs } }

-----------------------------------------------------------------------------
(* Specification SpecExampleGraph: _find_cycles_dfs on the graph of four assets *)

\* the adjacency lists of USDT:{BTC,BNB}, BTC:{USDT,ETH}, ETH:{BTC},
\* BNB:{USDT}, in every order the neighbours may have been appended in
ExampleGraphs ==
    { [v \in {"USDT", "BTC", "ETH", "BNB"} |->
          CASE v = "USDT" -> usdt
            [] v = "BTC" -> btc
            [] v = "ETH" -> <<"BTC">>
            [] v = "BNB" -> <<"USDT">>] :
      usdt \in {<<"BTC", "BNB">>, <<"BNB", "BTC">>},
      btc \in {<<"USDT", "ETH">>, <<"ETH", "USDT">>} }

ExampleInit ==
    /\ graph \in ExampleGraphs
    /\ start_node \in {"USDT", "BTC", "ETH", "BNB"}
    /\ max_length \in 1..MaxLength
    /\ stack = dfs_initial_stack(start_node)
    /\ cycles = <<>>
    /\ dfs_iters = 0
    /\ finder_pc = "dfs"
    /\ RunIdle /\ SetupIdle /\ FeeIdle /\ ProfitIdle /\ MonitorIdle /\ BotIdle
    /\ ExtIdle

SpecExampleGraph == ExampleInit /\ [][DfsNext]_vars

\* the enumeration rooted at USDT with L = 3 or L = 4 has returned
ExampleDone ==
    /\ finder_pc = "done"
    /\ start_node = "USDT"
    /\ max_length \in {3, 4}

-----------------------------------------------------------------------------
(* Specification SpecFees: the fee cache of one BinanceClient *)

FeeSymbols == {"BTCUSDT", "ETHUSDT"}

\* Decimal(fee['takerCommission'])
DecimalOfCommission(s) ==
    CASE s = "0.001" -> <<1, 1000>>
      [] s = "0.002" -> <<1, 500>>

FeeFailures ==
    { [kind |-> "error", tradeFee |-> <<>>], [kind |-> "nothing", tradeFee |-> <<>>],
      [kind |-> "fees", tradeFee |-> <<>>] }

\* what the exchange may answer to client.get_trade_fee(): an error of the
\* Binance library, nothing, or a list of fees
AllFeesAnswers ==
    FeeFailures \cup
    { [kind |-> "fees",
       tradeFee |-> <<[symbol |-> "BTCUSDT", takerCommission |-> "0.001"]>>],
      [kind |-> "fees",
       tradeFee |-> <<[symbol |-> "BTCUSDT", takerCommission |-> "0.002"],
                      [symbol |-> "ETHUSDT", takerCommission |-> "0.001"]>>] }

\* what it may answer to client.get_trade_fee(symbol=symbol)
SymbolFeeAnswers(symbol) ==
    FeeFailures \cup
    { [kind |-> "fees", tradeFee |-> <<[symbol |-> symbol, takerCommission |-> c]>>] :
        c \in {"0.001", "0.002"} }

\* lines 181-182: the loop storing the fees of an answer
RECURSIVE store_fees(_, _, _)
store_fees(cache, tradeFee, i) ==
    IF i > Len(tradeFee) THEN cache
    ELSE store_fees((tradeFee[i].symbol :>
                        DecimalOfCommission(tradeFee[i].takerCommission)) @@ cache,
                    tradeFee, i + 1)

\* a plausible slip: the cache not looked at, the fees requested on every call
get_trade_fees_uncached(cache, answer) ==
    IF answer.kind = "error"
    THEN [cache |-> cache, requests |-> 1, table |-> EmptyMap]
    ELSE LET filled == IF answer.kind = "fees"
                       THEN store_fees(cache, answer.tradeFee, 1) ELSE cache
         IN [cache |-> filled, requests |-> 1, table |-> filled]

\* get_trade_fees (lines 170-188) on the cache, given what the exchange
\* answers if asked: the cache after, the requests sent, the table returned
get_trade_fees(cache, answer) ==
    IF cache # EmptyMap
    THEN [cache |-> cache, requests |-> 0, table |-> cache]
    ELSE IF answer.kind = "error"
    THEN [cache |-> cache, requests |-> 1, table |-> EmptyMap]
    ELSE LET filled == IF answer.kind = "fees"
                       THEN store_fees(cache, answer.tradeFee, 1) ELSE cache
         IN [cache |-> filled, requests |-> 1, table |-> filled]

\* get_trade_fee (lines 190-220): the cache after, the requests sent and the
\* fee returned (kind "none" for None)
get_trade_fee(cache, symbol, all_answer, symbol_answer) ==
    LET loaded == IF cache = EmptyMap
                  THEN get_trade_fees(cache, all_answer)
                  ELSE [cache |-> cache, requests |-> 0, table |-> cache]
    IN IF symbol \notin DOMAIN loaded.cache
       THEN IF symbol_answer.kind = "fees" /\ Len(symbol_answer.tradeFee) > 0
            THEN LET fee == DecimalOfCommission(symbol_answer.tradeFee[1].takerCommission)
                 IN [cache |-> (symbol :> fee) @@ loaded.cache,
                     requests |-> loaded.requests + 1,
                     result |-> [kind |-> "fee", fee |-> fee, table |-> EmptyMap]]
            ELSE [cache |-> loaded.cache, requests |-> loaded.requests + 1,
                  result |-> NoFeeResult]
       ELSE [cache |-> loaded.cache, requests |-> loaded.requests,
             result |-> [kind |-> "fee", fee |-> loaded.cache[symbol],
                         table |-> EmptyMap]]

\* line 32: the client is constructed with an empty cache
FeesInit ==
    /\ client_trade_fees = EmptyMap
    /\ fee_requests = 0
    /\ fee_calls = 0
    /\ fee_call = NoFeeCall
    /\ fee_result = NoFeeResult
    /\ CoreIdle /\ BaseExtIdle /\ WhitelistIdle /\ LifeIdle /\ RestIdle

CallGetTradeFees ==
    /\ fee_calls < MaxFeeCalls
    /\ \E answer \in AllFeesAnswers :
         LET r == get_trade_fees(client_trade_fees, answer)
         IN /\ client_trade_fees' = r.cache
            /\ fee_requests' = fee_requests + r.requests
            /\ fee_result' = [kind |-> "table", fee |-> Zero, table |-> r.table]
    /\ fee_call' = [method |-> "get_trade_fees", symbol |-> ""]
    /\ fee_calls' = fee_calls + 1
    /\ UNCHANGED notCacheVars

CallGetTradeFee ==
    /\ fee_calls < MaxFeeCalls
    /\ \E symbol \in FeeSymbols :
         \E all_answer \in AllFeesAnswers : \E symbol_answer \in SymbolFeeAnswers(symbol) :
            LET r == get_trade_fee(client_trade_fees, symbol, all_answer, symbol_answer)
            IN /\ client_trade_fees' = r.cache
               /\ fee_requests' = fee_requests + r.requests
               /\ fee_result' = r.result
               /\ fee_call' = [method |-> "get_trade_fee", symbol |-> symbol]
    /\ fee_calls' = fee_calls + 1
    /\ UNCHANGED notCacheVars

FeesNext == CallGetTradeFees \/ CallGetTradeFee

SpecFees == FeesInit /\ [][FeesNext]_vars

\* a step leaves the fee of every cached symbol as it is, and a call for such
\* a symbol, or for the table, returns that fee without a request
CachedFeeServed ==
    \A s \in DOMAIN client_trade_fees :
       /\ s \in DOMAIN client_trade_fees'
       /\ client_trade_fees'[s] = client_trade_fees[s]
       /\ (fee_call'.method = "get_trade_fee" /\ fee_call'.symbol = s)
             => /\ fee_result'.kind = "fee"
                /\ fee_result'.fee = client_trade_fees[s]
                /\ fee_requests' = fee_requests
       /\ fee_call'.method = "get_trade_fees"
             => /\ s \in DOMAIN fee_result'.table
                /\ fee_result'.table[s] = client_trade_fees[s]
                /\ fee_requests' = fee_requests

\* C18: once the fee of a symbol is in the cache of a client, every later
\* get_trade_fee(symbol) and get_trade_fees() on that client returns that fee
\* and sends no request to the exchange, whatever calls are made and
\* whatever the exchange would answer.
C18_FeesCachedForLifetime == [][CachedFeeServed]_vars

\* a fee was fetched by the first call and the second call, for the same
\* symbol, was served without a request
C18_Witness ==
    /\ fee_calls = 2
    /\ fee_requests = 1
    /\ fee_call.method = "get_trade_fee"
    /\ fee_result.kind = "fee"
    /\ fee_call.symbol \in DOMAIN client_trade_fees

-----------------------------------------------------------------------------
(* Specification SpecLifecycle: ProfitMonitor.start, stop and their tasks *)

\* the pair a listener's chunk subscribes to
chunk_pair(t) == IF t = "listener 1" THEN "AU" ELSE "BCU"

lifeFrame ==
    <<finderVars, runVars, setupVars, feeVars, profitVars, botVars,
      latest_profits_by_cycle, profitable_cycles_queue, message, debug_log, profits_txt,
      enqueued, received, listeners_alive, ticks, baseExtVars, whitelistVars, cacheVars,
      restVars>>

\* ProfitMonitor.__init__ (lines 27-36): no task, an empty price map
LifecycleInit ==
    /\ CoreIdle /\ BaseExtIdle /\ WhitelistIdle /\ CacheIdle /\ RestIdle
    /\ LifeIdle

\* a task that can take a step: it exists, has not ended, and no
\* cancellation is waiting to be thrown into it
Runnable(t) ==
    /\ task_state[t] \notin {"absent", "done"}
    /\ t \notin cancel_requested

\* start() up to its await (lines 241-252): _setup, then the tasks are
\* created and stored; without symbols_info it returns at once
StartRun ==
    /\ start_pc = "not called"
    /\ \E setup_ok \in BOOLEAN :
         IF setup_ok
         THEN /\ task_state' = [t \in AllTasks |->
                                   IF t \in Listeners THEN "connecting" ELSE "sleeping"]
              /\ tasks' = AllTasks
              /\ start_pc' = "gathering"
         ELSE /\ start_pc' = "returned"
              /\ UNCHANGED <<tasks, task_state>>
    /\ UNCHANGED <<lifeFrame, latest_prices, cancel_requested, task_cancelled, stop_pc,
                   stop_waits, frames_handled, prices_file, prices_at_stop>>

\* line 252: gather ends when every task has
StartReturn ==
    /\ start_pc = "gathering"
    /\ \A t \in tasks : task_state[t] = "done"
    /\ start_pc' = "returned"
    /\ UNCHANGED <<lifeFrame, latest_prices, tasks, task_state, cancel_requested,
                   task_cancelled, stop_pc, stop_waits, frames_handled, prices_file,
                   prices_at_stop>>

\* stop() up to its await (lines 254-259): every task of self.tasks is
\* cancelled; gather of no task is done already, so stop() returns at once
StopCall ==
    /\ stop_pc = "not called"
    /\ cancel_requested' = cancel_requested \cup {t \in tasks : task_state[t] # "done"}
    /\ stop_waits' = tasks
    /\ IF tasks = {}
       THEN stop_pc' = "returned" /\ prices_at_stop' = latest_prices
       ELSE stop_pc' = "gathering" /\ UNCHANGED prices_at_stop
    /\ UNCHANGED <<lifeFrame, latest_prices, tasks, task_state, task_cancelled, start_pc,
                   frames_handled, prices_file>>

\* lines 259-260: the gather of stop() ends when every task it holds has
StopReturn ==
    /\ stop_pc = "gathering"
    /\ \A t \in stop_waits : task_state[t] = "done"
    /\ stop_pc' = "returned"
    /\ prices_at_stop' = latest_prices
    /\ UNCHANGED <<lifeFrame, latest_prices, tasks, task_state, cancel_requested,
                   task_cancelled, start_pc, stop_waits, frames_handled, prices_file>>

\* CancelledError is thrown into a cancelled task at its await; it is no
\* Exception, so neither except clause of the listener catches it
TaskCancelled ==
    /\ \E t \in cancel_requested :
         /\ task_state' = [task_state EXCEPT ![t] = "done"]
         /\ cancel_requested' = cancel_requested \ {t}
         /\ task_cancelled' = task_cancelled \cup {t}
    /\ UNCHANGED <<lifeFrame, latest_prices, tasks, start_pc, stop_pc, stop_waits,
                   frames_handled, prices_file, prices_at_stop>>

\* what ends an attempt of websockets.connect or a wait in ws.recv
ConnectOutcomes == {"open", "InvalidStatusCode", "OSError"}
CloseOutcomes == {"ConnectionClosedError", "ConnectionClosedOK"}

\* lines 210-215: where an exception leaves the listener: the two named
\* ones in the sleep before the next connect, any other out of the loop
after_exception(e) ==
    IF e \in {"ConnectionClosedError", "InvalidStatusCode"} THEN "sleeping" ELSE "done"

\* line 205: websockets.connect
ListenerConnect ==
    /\ \E t \in Listeners : \E outcome \in ConnectOutcomes :
         /\ Runnable(t)
         /\ task_state[t] = "connecting"
         /\ task_state' = [task_state EXCEPT ![t] =
                              IF outcome = "open" THEN "connected"
                              ELSE after_exception(outcome)]
    /\ UNCHANGED <<lifeFrame, latest_prices, tasks, cancel_requested, task_cancelled,
                   start_pc, stop_pc, stop_waits, frames_handled, prices_file,
                   prices_at_stop>>

\* lines 208-209 and 187-196: a frame is received and handled, the price of
\* its pair written; a frame the handler cannot read raises out of the loop
ListenerFrame ==
    /\ frames_handled < MaxFrames
    /\ \E t \in Listeners : \E frame \in {"1.00", "2", "unreadable"} :
         /\ Runnable(t)
         /\ task_state[t] = "connected"
         /\ IF frame = "unreadable"
            THEN /\ task_state' = [task_state EXCEPT ![t] = after_exception("KeyError")]
                 /\ UNCHANGED latest_prices
            ELSE /\ latest_prices' = (chunk_pair(t) :> [b |-> frame, a |-> frame])
                                        @@ latest_prices
                 /\ UNCHANGED task_state
    /\ frames_handled' = frames_handled + 1
    /\ UNCHANGED <<lifeFrame, tasks, cancel_requested, task_cancelled, start_pc, stop_pc,
                   stop_waits, prices_file, prices_at_stop>>

\* line 208: ws.recv raises because the connection was closed
ListenerClosed ==
    /\ \E t \in Listeners : \E outcome \in CloseOutcomes :
         /\ Runnable(t)
         /\ task_state[t] = "connected"
         /\ task_state' = [task_state EXCEPT ![t] = after_exception(outcome)]
    /\ UNCHANGED <<lifeFrame, latest_prices, tasks, cancel_requested, task_cancelled,
                   start_pc, stop_pc, stop_waits, frames_handled, prices_file,
                   prices_at_stop>>

\* line 212: the sleep of 5 seconds is over and the loop connects again
ListenerWake ==
    /\ \E t \in Listeners :
         /\ Runnable(t)
         /\ task_state[t] = "sleeping"
         /\ task_state' = [task_state EXCEPT ![t] = "connecting"]
    /\ UNCHANGED <<lifeFrame, latest_prices, tasks, cancel_requested, task_cancelled,
                   start_pc, stop_pc, stop_waits, frames_handled, prices_file,
                   prices_at_stop>>

\* lines 120-139: the snapshot task wakes and saves the price map
LoggerTick ==
    /\ Runnable("logger")
    /\ prices_file # latest_prices
    /\ prices_file' = latest_prices
    /\ UNCHANGED <<lifeFrame, latest_prices, tasks, task_state, cancel_requested,
                   task_cancelled, start_pc, stop_pc, stop_waits, frames_handled,
                   prices_at_stop>>

LifecycleNext ==
    \/ StartRun \/ StartReturn \/ StopCall \/ StopReturn \/ TaskCancelled
    \/ ListenerConnect \/ ListenerFrame \/ ListenerClosed \/ ListenerWake \/ LoggerTick

SpecLifecycle == LifecycleInit /\ [][LifecycleNext]_vars

\* C19: a listener never stops for good while the monitor runs: whatever
\* ended its connection or its receive loop, it is out of its loop only if it
\* was cancelled (and otherwise connects again to the same streams).
C19_ListenerNeverStops ==
    \A t \in Listeners : task_state[t] = "done" => t \in task_cancelled

\* C20: once stop() has returned, no listener and no snapshot task is
\* running or starts later, and the price map is as it was at the return,
\* in every interleaving of stop() with start().
C20_NothingRunsAfterStop ==
    stop_pc = "returned" =>
       /\ \A t \in AllTasks : task_state[t] \in {"absent", "done"}
       /\ latest_prices = prices_at_stop

-----------------------------------------------------------------------------
(* C21 *)

\* the profit an opportunity's own snapshot gives its cycle
ProfitOfSnapshot(e) ==
    calculate_profit(structured_cycles[e.cycle], e.prices, symbols_info, trade_fees)

\* the opportunities a step has put on the queue
NewlyEnqueued == {enqueued'[i] : i \in (Len(enqueued) + 1)..Len(enqueued')}

\* C21: every published opportunity is coherent: its profit_pct is what
\* calculate_profit gives on its own snapshot of prices, and when the handler
\* that published it is through, latest_profits_by_cycle holds that same
\* profit_pct for its cycle.
C21_PublishedOpportunityCoherent ==
    /\ [](\A i \in 1..Len(enqueued) :
             /\ ProfitOfSnapshot(enqueued[i]).kind = "return"
             /\ ProfitOfSnapshot(enqueued[i]).value = enqueued[i].profit_pct)
    /\ [][\A e \in NewlyEnqueued :
             ProfitEntry(latest_profits_by_cycle', e.cycle) = <<e.profit_pct>>]_vars

\* an opportunity was published from a frame that replaced a price which an
\* earlier opportunity of the same cycle had been computed from
C21_Witness ==
    \E i, j \in 1..Len(enqueued) :
       /\ i < j
       /\ enqueued[i].cycle = enqueued[j].cycle
       /\ enqueued[i].prices # enqueued[j].prices
       /\ enqueued[i].profit_pct # enqueued[j].profit_pct

-----------------------------------------------------------------------------
(* C23 *)

\* C23: the opportunity queue is bounded: the number of opportunities that
\* wait in it stays below a capacity that does not grow with the number of
\* frames the evaluator handles (here: below that number of frames itself).
C23_QueueWithinCapacity ==
    Len(profitable_cycles_queue.items) < MaxTicks

-----------------------------------------------------------------------------
(* Specification SpecPriceFile: _save_latest_prices beside the listeners *)

WriterPairs == {"AU", "BCU"}
WriterQuotes == {[b |-> "1.00", a |-> "1.00"], [b |-> "2", a |-> "2"]}

\* json.dump of a dict, key by key
file_of(prices) ==
    [entries |-> [i \in 1..Cardinality(DOMAIN prices) |->
                     <<SeqOfSet(DOMAIN prices)[i], prices[SeqOfSet(DOMAIN prices)[i]]>>],
     complete |-> TRUE]

\* json.load of what has been written
file_map(f) ==
    [p \in {f.entries[i][1] : i \in 1..Len(f.entries)} |->
        (CHOOSE e \in Range(f.entries) : e[1] = p)[2]]

writerFrame ==
    <<finderVars, runVars, setupVars, feeVars, profitVars, botVars,
      latest_profits_by_cycle, profitable_cycles_queue, message, debug_log, profits_txt,
      enqueued, received, listeners_alive, baseExtVars, whitelistVars, cacheVars, lifeVars,
      configVars, walkVars>>

\* __init__, lines 30-42: the price map is what the file of the last run
\* holds, and empty when there is no file
PriceFileInit ==
    /\ latest_prices \in
          {EmptyMap} \cup
          {[p \in P |-> [b |-> "1.00", a |-> "1.00"]] : P \in {{"AU"}, WriterPairs}}
    /\ disk_file = IF latest_prices = EmptyMap THEN NoDiskFile ELSE file_of(latest_prices)
    /\ wr_pc = "idle"
    /\ wr_keys = <<>>
    /\ wr_i = 0
    /\ wr_instants = {}
    /\ ticks = 0
    /\ latest_profits_by_cycle = EmptyMap
    /\ profitable_cycles_queue = NoQueue
    /\ message = NoMessage
    /\ debug_log = <<>>
    /\ profits_txt = <<>>
    /\ enqueued = <<>>
    /\ received = {}
    /\ listeners_alive = {}
    /\ FinderIdle /\ RunIdle /\ SetupIdle /\ FeeIdle /\ ProfitIdle /\ BotIdle
    /\ BaseExtIdle /\ WhitelistIdle /\ CacheIdle /\ LifeIdle /\ ConfigIdle /\ WalkIdle

\* _handle_websocket_message, line 192, in the event loop's thread (no cycle
\* is set up here, so lines 194-196 do nothing)
PriceTick ==
    /\ ticks < MaxTicks
    /\ \E p \in WriterPairs, q \in WriterQuotes :
          /\ latest_prices' = dict_set(latest_prices, p, q)
          /\ wr_instants' = IF wr_pc = "writing"
                               THEN wr_instants \cup {latest_prices'}
                               ELSE wr_instants
    /\ ticks' = ticks + 1
    /\ UNCHANGED <<disk_file, wr_pc, wr_keys, wr_i, writerFrame>>

\* line 57 and lines 51-52: the worker thread is handed self.latest_prices
\* itself, opens the file with 'w', which empties it, and json.dump starts
\* to iterate over the dict
WriteOpen ==
    /\ wr_pc = "idle"
    /\ wr_pc' = "writing"
    /\ disk_file' = [entries |-> <<>>, complete |-> FALSE]
    /\ wr_keys' = SeqOfSet(DOMAIN latest_prices)
    /\ wr_i' = 1
    /\ wr_instants' = {latest_prices}
    /\ UNCHANGED <<latest_prices, ticks, writerFrame>>

\* the dict has the size it had when the iteration began
SizeKept == Cardinality(DOMAIN latest_prices) = Len(wr_keys)

\* line 53: the encoder takes the next item of the dict, with the value the
\* dict holds for the key now, and writes it
WriteEntry ==
    /\ wr_pc = "writing"
    /\ SizeKept
    /\ wr_i <= Len(wr_keys)
    /\ disk_file' = [disk_file EXCEPT
                        !.entries = Append(@, <<wr_keys[wr_i], latest_prices[wr_keys[wr_i]]>>)]
    /\ wr_i' = wr_i + 1
    /\ UNCHANGED <<wr_pc, wr_keys, wr_instants, latest_prices, ticks, writerFrame>>

\* line 53, lines 58-59: a key was added since the iteration began; the
\* dict's iterator raises RuntimeError, the file is closed as it is and the
\* error is logged
WriteFail ==
    /\ wr_pc = "writing"
    /\ Len(wr_keys) > 0
    /\ ~SizeKept
    /\ wr_pc' = "failed"
    /\ UNCHANGED <<disk_file, wr_keys, wr_i, wr_instants, latest_prices, ticks, writerFrame>>

\* lines 52-53: the iteration is through, the closing brace is written and
\* the file closed
WriteClose ==
    /\ wr_pc = "writing"
    /\ SizeKept \/ Len(wr_keys) = 0
    /\ wr_i > Len(wr_keys)
    /\ wr_pc' = "done"
    /\ disk_file' = [disk_file EXCEPT !.complete = TRUE]
    /\ UNCHANGED <<wr_keys, wr_i, wr_instants, latest_prices, ticks, writerFrame>>

PriceFileNext == PriceTick \/ WriteOpen \/ WriteEntry \/ WriteFail \/ WriteClose

SpecPriceFile == PriceFileInit /\ [][PriceFileNext]_vars

-----------------------------------------------------------------------------
(* C22 *)

\* C22: the price map leaves the evaluator only as a copy: the write of
\* latest_prices.json never goes through a map that a listener changes
\* meanwhile, and what it has written when it is through is the price map
\* as it was at one single instant of the write.
C22_FileIsOneInstant ==
    /\ wr_pc # "failed"
    /\ wr_pc = "done" => file_map(disk_file) \in wr_instants

-----------------------------------------------------------------------------
(* C30 *)

\* C30: latest_prices.json is written atomically: at every instant, also
\* while a write is under way or after it failed, a reader finds a complete
\* content in the file, never an empty or partly written one.
C30_ReaderSeesCompleteFile ==
    disk_file.complete

-----------------------------------------------------------------------------
(* C24 *)

\* one of the two names of a transition is listed with status TRADING
TradingNames(a, b) ==
    {s \in {b \o a, a \o b} : s \in DOMAIN symbols_info /\ symbols_info[s].status = "TRADING"}

\* C24: structure_cycles_and_get_pairs keeps a cycle if and only if every
\* transition a -> b of it has a TRADING symbol named b+a or a+b, and binds
\* each step to such a symbol; a halted b+a does not stand in the way of a
\* TRADING a+b.
C24_KeptIffEveryTransitionTrading ==
    (monitor_pc # "new" /\ symbols_info # EmptyMap /\ cycles_file # NoFile) =>
        /\ \A k \in 1..Len(cycles_file) :
              (\E j \in 1..Len(structured_cycles) :
                    structured_cycles[j].coins = cycles_file[k])
              <=> (\A i \in 1..(Len(cycles_file[k]) - 1) :
                      TradingNames(cycles_file[k][i], cycles_file[k][i + 1]) # {})
        /\ \A j \in 1..Len(structured_cycles) :
              \A i \in 1..Len(structured_cycles[j].steps) :
                 structured_cycles[j].steps[i].pair \in
                    TradingNames(structured_cycles[j].steps[i].from,
                                 structured_cycles[j].steps[i].to)

-----------------------------------------------------------------------------
(* Specification SpecExecutionPrice: _calculate_execution_price, level by   *)
(* level, on every small order book.  The amounts and levels drawn keep the  *)
(* sums and products exact; the quotient of a partly taken level is kept as  *)
(* the exact rational.                                                       *)

\* a plausible slip: a level taken in part is charged in full
execution_level_charged_in_full(side, level, remaining, spent, filled) ==
    LET price == DecimalOfLevel(level[1])
        qty == DecimalOfLevel(level[2])
        cost_of_level == RatMul(price, qty)
    IN IF side = "BUY"
       THEN [break |-> ~RatGeq(remaining, cost_of_level),
             remaining |-> IF RatGeq(remaining, cost_of_level)
                              THEN RatSub(remaining, cost_of_level) ELSE Zero,
             spent |-> RatAdd(spent, cost_of_level), filled |-> RatAdd(filled, qty)]
       ELSE [break |-> ~RatGeq(remaining, qty),
             remaining |-> IF RatGeq(remaining, qty) THEN RatSub(remaining, qty) ELSE Zero,
             spent |-> RatAdd(spent, qty), filled |-> RatAdd(filled, RatMul(qty, price))]

\* one iteration of the for loop (lines 174-191 on BUY, 200-214 on SELL)
execution_level(side, level, remaining, spent, filled) ==
    LET price == DecimalOfLevel(level[1])
        qty == DecimalOfLevel(level[2])
        cost_of_level == RatMul(price, qty)
    IN IF side = "BUY"
       THEN IF RatGeq(remaining, cost_of_level)
            THEN [break |-> FALSE, remaining |-> RatSub(remaining, cost_of_level),
                  spent |-> RatAdd(spent, cost_of_level), filled |-> RatAdd(filled, qty)]
            ELSE [break |-> TRUE, remaining |-> Zero,
                  spent |-> RatAdd(spent, remaining),
                  filled |-> RatAdd(filled, RatDiv(remaining, price))]
       ELSE IF RatGeq(remaining, qty)
            THEN [break |-> FALSE, remaining |-> RatSub(remaining, qty),
                  spent |-> RatAdd(spent, qty), filled |-> RatAdd(filled, RatMul(qty, price))]
            ELSE [break |-> TRUE, remaining |-> Zero,
                  spent |-> RatAdd(spent, remaining),
                  filled |-> RatAdd(filled, RatMul(remaining, price))]

\* the amounts a leg is simulated with
TradeAmounts == {<<1, 2>>, <<10, 1>>, <<15, 1>>, <<500, 1>>}

walkFrame == <<coreVars, baseExtVars, whitelistVars, cacheVars, lifeVars, writerVars,
               configVars>>

\* lines 167-169: the call on an order book, a side and an amount
ExecutionPriceInit ==
    /\ xp_order_book \in OrderBooks
    /\ xp_side \in {"BUY", "SELL"}
    /\ xp_amount \in TradeAmounts
    /\ xp_i = 1
    /\ remaining_amount = xp_amount
    /\ total_spent = Zero
    /\ total_filled = Zero
    /\ xp_pc = "walk"
    /\ xp_result = NoPrice
    /\ CoreIdle /\ BaseExtIdle /\ WhitelistIdle /\ CacheIdle /\ LifeIdle
    /\ WriterIdle /\ ConfigIdle

\* one level is read and taken, in full or in part
WalkLevel ==
    /\ xp_pc = "walk"
    /\ xp_i <= Len(levels_of(xp_order_book, xp_side))
    /\ LET r == execution_level(xp_side, levels_of(xp_order_book, xp_side)[xp_i],
                                remaining_amount, total_spent, total_filled)
       IN /\ remaining_amount' = r.remaining
          /\ total_spent' = r.spent
          /\ total_filled' = r.filled
          /\ xp_pc' = IF r.break THEN "end" ELSE "walk"
          /\ xp_i' = IF r.break THEN xp_i ELSE xp_i + 1
    /\ UNCHANGED <<xp_order_book, xp_side, xp_amount, xp_result, walkFrame>>

\* lines 192-195, 215-218: the loop is left and the answer returned
WalkReturn ==
    /\ \/ xp_pc = "end"
       \/ xp_pc = "walk" /\ xp_i > Len(levels_of(xp_order_book, xp_side))
    /\ xp_pc' = "returned"
    /\ xp_result' =
          IF xp_side = "BUY"
          THEN IF total_filled = Zero THEN NoPrice
               ELSE [ok |-> TRUE, avg_price |-> RatDiv(total_spent, total_filled),
                     filled |-> total_filled]
          ELSE IF total_spent = Zero THEN NoPrice
               ELSE [ok |-> TRUE, avg_price |-> RatDiv(total_filled, total_spent),
                     filled |-> total_filled]
    /\ UNCHANGED <<xp_order_book, xp_side, xp_amount, xp_i, remaining_amount,
                   total_spent, total_filled, walkFrame>>

ExecutionPriceNext == WalkLevel \/ WalkReturn

SpecExecutionPrice == ExecutionPriceInit /\ [][ExecutionPriceNext]_vars

-----------------------------------------------------------------------------
(* C25 *)

\* what the first k levels of a side hold: their cost on BUY (quote), their
\* quantity on SELL (base)
RECURSIVE depth_of(_, _, _)
depth_of(side, levels, k) ==
    IF k = 0 THEN Zero
    ELSE RatAdd(depth_of(side, levels, k - 1),
                IF side = "BUY"
                THEN RatMul(DecimalOfLevel(levels[k][1]), DecimalOfLevel(levels[k][2]))
                ELSE DecimalOfLevel(levels[k][2]))

\* what the first k levels of a side give when taken in full: base on BUY,
\* quote on SELL
RECURSIVE yield_of(_, _, _)
yield_of(side, levels, k) ==
    IF k = 0 THEN Zero
    ELSE RatAdd(yield_of(side, levels, k - 1),
                IF side = "BUY"
                THEN DecimalOfLevel(levels[k][2])
                ELSE RatMul(DecimalOfLevel(levels[k][1]), DecimalOfLevel(levels[k][2])))

XpLevels == levels_of(xp_order_book, xp_side)

\* C25: in _calculate_execution_price the levels are taken from the first
\* one on; after every level total_spent + remaining_amount = amount_to_trade
\* and total_spent <= amount_to_trade; the answer is (spent / filled, filled
\* base) on BUY and (quote received / base sold, quote received) on SELL; a
\* book shallower than the amount gives the partial fill with the remainder
\* left, and (None, None) is answered only when nothing was filled.
C25_ExecutionWalk ==
    xp_pc # "idle" =>
       /\ RatAdd(total_spent, remaining_amount) = xp_amount
       /\ RatGeq(xp_amount, total_spent)
       /\ RatGeq(remaining_amount, Zero)
       /\ xp_pc = "walk" =>
             /\ total_spent = depth_of(xp_side, XpLevels, xp_i - 1)
             /\ total_filled = yield_of(xp_side, XpLevels, xp_i - 1)
       /\ xp_pc = "returned" =>
             /\ xp_result = calculate_execution_price(xp_order_book, xp_side, xp_amount)
             /\ xp_result.ok =>
                   /\ xp_result.filled = total_filled
                   /\ RatMul(xp_result.avg_price,
                             IF xp_side = "BUY" THEN total_filled ELSE total_spent)
                         = (IF xp_side = "BUY" THEN total_spent ELSE total_filled)
             /\ ~xp_result.ok => total_spent = Zero /\ total_filled = Zero
             /\ RatGreater(xp_amount, depth_of(xp_side, XpLevels, Len(XpLevels))) =>
                   /\ total_spent = depth_of(xp_side, XpLevels, Len(XpLevels))
                   /\ total_filled = yield_of(xp_side, XpLevels, Len(XpLevels))
                   /\ remaining_amount = RatSub(xp_amount, total_spent)
                   /\ xp_result.ok <=> XpLevels # <<>>

\* a sale went through one bid in full and took the next in part
C25_Witness ==
    /\ xp_pc = "returned"
    /\ xp_side = "SELL"
    /\ xp_i = 2
    /\ remaining_amount = Zero
    /\ xp_result.ok
    /\ RatGreater(total_spent, depth_of(xp_side, XpLevels, 1))

-----------------------------------------------------------------------------
(* C26 *)

\* every pair of the steps has a ticker, with a quote volume of at least
\* min_trade_volume_usd
GateHolds(tickers, steps) ==
    \A i \in 1..Len(steps) :
       \E j \in 1..Len(tickers) :
          /\ tickers[j].symbol = steps[i].pair
          /\ RatGeq(DecimalOfVolume(tickers[j].quoteVolume), min_volume_threshold)

\* C26: a record is appended for an opportunity only if a 24h ticker was
\* obtained for every pair of its cycle and each quote volume is at least
\* min_trade_volume_usd (a volume equal to it passes); an opportunity that
\* fails the gate is skipped before any order book is fetched.
C26_LiquidityGate ==
    /\ [](ex_pc \in {"sizing", "leg", "log"} =>
             GateHolds(ex_tickers, structured_cycles[bot_current.cycle].steps))
    /\ [][trades_csv' # trades_csv =>
             GateHolds(ex_tickers, structured_cycles[bot_current.cycle].steps)]_vars
    /\ [][(/\ ex_pc = "tickers"
           /\ ex_pc' # "tickers"
           /\ ~GateHolds(ex_tickers', structured_cycles[bot_current.cycle].steps))
          => /\ ex_pc' = "idle"
             /\ ex_books' = <<>>
             /\ trades_csv' = trades_csv
             /\ Len(ex_done') = Len(ex_done) + 1
             /\ ex_done'[Len(ex_done')].outcome = "skipped"
             /\ ex_done'[Len(ex_done')].books = <<>>]_vars

\* one opportunity was skipped at the gate, and a later one, whose tickers
\* were all exactly at the threshold, was simulated and recorded
C26_Witness ==
    /\ ex_pc = "idle"
    /\ Len(ex_done) >= 2
    /\ ex_done[1].outcome = "skipped"
    /\ ex_done[Len(ex_done)].outcome = "completed"
    /\ ex_tickers # <<>>
    /\ \A i \in 1..Len(ex_tickers) :
          DecimalOfVolume(ex_tickers[i].quoteVolume) = min_volume_threshold

-----------------------------------------------------------------------------
(* C27 *)

\* analysis/main.py line 45: the profit the trade analysis takes from a row
analysis_profit(row) == RatSub(row.final_amount, row.initial_amount)

\* the amount the legs of a finished call started from (bot.py line 263)
sized_start(e) ==
    RatMin(initial_investment,
           find_optimal_investment_amount(e.books[1].book,
                                          first_side_of(DoneSteps(e)[1], executor_info),
                                          max_slippage_pct))

\* the rows of the trade files, headers left out
TradeRows ==
    UNION { {trades_csv[h][i] : i \in 1..Len(trades_csv[h])} : h \in DOMAIN trades_csv }
       \ {HeaderRow}

\* C27: the initial_amount of every trade record is the configured
\* initial_investment, not the amount min(initial_investment, sized notional)
\* the legs started from; when the sized notional is below initial_investment
\* the recorded initial_amount is strictly larger than that amount, and
\* final_amount - initial_amount as the analysis computes it is below the
\* gain of the simulated legs.
C27_RecordedInitialAmount ==
    \A row \in TradeRows :
       /\ row.initial_amount = initial_investment
       /\ \A k \in 1..Len(ex_done) :
             (ex_done[k].seq = row.seq /\ ex_done[k].outcome = "completed"
                /\ RatGreater(initial_investment, sized_start(ex_done[k])))
             => /\ RatGreater(row.initial_amount, sized_start(ex_done[k]))
                /\ RatGreater(RatSub(row.final_amount, sized_start(ex_done[k])),
                              analysis_profit(row))

\* a record was written for legs that started from less than initial_investment
C27_Witness ==
    \E row \in TradeRows :
       \E k \in 1..Len(ex_done) :
          /\ ex_done[k].seq = row.seq
          /\ ex_done[k].outcome = "completed"
          /\ RatGreater(initial_investment, sized_start(ex_done[k]))

-----------------------------------------------------------------------------
(* C28 *)

\* the fee the claim describes: the table entry, else config.trading_fee
ConfiguredFeeOf(pair) ==
    IF pair \in DOMAIN trade_fees THEN trade_fees[pair] ELSE config_trading_fee

\* the amount after the first n steps with that fee
RECURSIVE ConfiguredFoldAmount(_)
ConfiguredFoldAmount(n) ==
    IF n = 0 THEN One
    ELSE LET s == CpSteps[n]
             keep == RatSub(One, ConfiguredFeeOf(s.pair))
         IN IF IsBuy(s)
            THEN RatMul(RatDiv(ConfiguredFoldAmount(n - 1),
                               DecimalOf(latest_prices[s.pair].a)), keep)
            ELSE RatMul(RatMul(ConfiguredFoldAmount(n - 1),
                               DecimalOf(latest_prices[s.pair].b)), keep)

\* C28: the fee the profit computation applies to a pair without an entry in
\* the fee table is the configured trading_fee: the profit of a cycle is the
\* one folded with config.trading_fee for such pairs, whatever value the
\* configuration gives it.
C28_MissingFeeIsConfigured ==
    (cp_result # NoResult /\ AllPairsPresent /\ NoZeroAskBuy) =>
        /\ cp_result.kind = "return"
        /\ cp_result.value =
              RatMul(RatSub(ConfiguredFoldAmount(Len(CpSteps)), One), Hundred)

-----------------------------------------------------------------------------
(* C29 *)

\* the base and quote assets of the listed symbols named by a set of pairs
AssetsReferencedBy(pairs) ==
    UNION { {wl_exchange_info.symbols[i].baseAsset, wl_exchange_info.symbols[i].quoteAsset} :
              i \in {j \in 1..Len(wl_exchange_info.symbols) :
                        wl_exchange_info.symbols[j].symbol \in pairs} }

\* C29: the whitelist_assets written by generate_whitelist are exactly the
\* assets referenced by whitelist_pairs: an asset is listed if and only if it
\* is the base or quote asset of a pair of whitelist_pairs.
C29_AssetsAreClosureOfPairs ==
    whitelist_file.written =>
        whitelist_file.whitelist_assets = AssetsReferencedBy(whitelist_file.whitelist_pairs)

====
